---- MODULE Spec2Model ----
(***************************************************************************)
(* Model of downloader.py: the acquisition-and-cache pipeline of           *)
(* YouTubeDownloader.download_video, the section stitcher                  *)
(* cut_and_concatenate_sections, the trimmer cut_video and the identifier  *)
(* sanitizer _sanitize_video_id.                                           *)
(*                                                                         *)
(* Strings are sequences of tokens.  A token is one character ("a", "/",  *)
(* ".") or one indivisible fragment of a file name (".mp4", ".part",      *)
(* "_section_0").  Paths are records [dir, name].  The file system is a   *)
(* function from the paths that exist to file records.                     *)
(***************************************************************************)
EXTENDS Integers, Sequences, FiniteSets, TLC

VARIABLES
    fs,                 \* path -> [kind, size, data] for every existing path
    growing,            \* paths another writer is still appending to
    pc,                 \* position of download_video
    req,                \* arguments of the running download_video call
    destBefore,         \* what output_path held when the call was made
    cached_video_path,  \* result of _get_cached_video_path
    ffmpeg_path,        \* os.environ.get('FFMPEG_PATH', 'ffmpeg') as last read
    ffmpegOk,           \* whether it passed _validate_ffmpeg_path
    video_info,         \* result of extract_video_info
    sanitized_video_id,
    original_file_path,
    final_path,         \* progress_tracker.final_file_path
    last_error,
    fmtIdx,             \* index into format_selectors of the next attempt
    attempts,           \* log of ydl.download calls: [sel, err, opts]
    findAttempt,        \* loop counter of _find_downloaded_file
    retry_delay,        \* milliseconds
    sleeps,             \* log of time.sleep(retry_delay) calls
    searchCount,        \* iterations of the directory search made so far
    foundSamples,       \* sizes the stability check saw for the file found
    discoveryRuns,      \* number of _find_downloaded_file calls
    processed,          \* log of processing steps: "copy", "trim", "stitch"
    procInput,          \* input path handed to the processing step
    origBefore,         \* file record of the full asset when processing starts
    sIndex,             \* enumerate() index of cut_and_concatenate_sections
    section_files,
    concat_file,
    toolCalls,          \* log of subprocess.run invocations
    tempsWritten,       \* temp-dir paths written during the stitch call
    unlinkFailed,       \* some unlink() of the cleanup raised
    stitchRet,          \* return value of cut_and_concatenate_sections
    stitchCaller,       \* who called it: "download_video", or "direct"
    failedRange,        \* index of the range whose trim made the call fail
    result,             \* the DownloadResult returned
    sanIn,              \* argument of _sanitize_video_id
    sanOut,             \* its return value, or Raised
    sanAgain,           \* what it returns when given its own result
    sanPc,
    probeCalls,         \* log of ydl.extract_info calls: how each one ended
    cacheLookups,       \* number of _get_cached_video_path calls
    cacheSamples,       \* sizes the stability check saw for the cached path
    stages,             \* log of the stages of download_video, in order
    passed,             \* <<check, path>> for every check a file has passed
    cutIn,              \* arguments of a cut_video call made on its own
    cutOut,             \* its return value
    cutPc,
    stabIn,             \* arguments of _check_file_stability and what stat() gives
    stabOut,            \* its return value, or the exception it raises
    stabPc,
    urlIn,              \* argument of validate_url and what the probe would give
    urlOut,             \* its return value
    urlPc,
    mainIn,             \* sys.argv of a command-line run in download mode
    mainPc,             \* position of main
    mainProbe,          \* how main's own extract_info call ended
    mainInfo,           \* video_info of main
    mainCalls,          \* log of the downloader methods main has called
    mainOut,            \* what main wrote to stdout and how it ended
    hookCalls,          \* log of the dicts given to the progress hook
    progressOut,        \* the progress events it printed to stderr
    twin,               \* two concurrent cut_and_concatenate_sections calls
    built               \* where the paths built from an identifier lie

ffVars == <<ffmpeg_path, ffmpegOk>>

pipeVars == <<fs, growing, pc, req, destBefore, cached_video_path,
              failedRange, ffVars, video_info, sanitized_video_id,
              original_file_path, final_path, last_error, fmtIdx, attempts,
              findAttempt, retry_delay, sleeps, discoveryRuns, searchCount,
              foundSamples, processed, procInput, origBefore, sIndex,
              section_files, concat_file, toolCalls, tempsWritten,
              unlinkFailed, stitchRet, stitchCaller, result, probeCalls,
              cacheLookups, cacheSamples, stages, passed>>

sanVars == <<sanIn, sanOut, sanAgain, sanPc>>

\* calls of cut_video, _check_file_stability and validate_url on their own
cutVars == <<cutIn, cutOut, cutPc>>

stabVars == <<stabIn, stabOut, stabPc>>

urlVars == <<urlIn, urlOut, urlPc>>

mainVars == <<mainIn, mainPc, mainProbe, mainInfo, mainCalls, mainOut>>

hookVars == <<hookCalls, progressOut>>

twinVars == <<twin>>

builtVars == <<built>>

unitVars == <<cutVars, stabVars, urlVars, mainVars, hookVars, twinVars, builtVars>>

histVars == <<probeCalls, cacheLookups, cacheSamples, stages, passed>>

vars == <<pipeVars, sanVars, unitVars>>

----------------------------------------------------------------------------
\* Bounds of the model

\* longest identifier given to the sanitizer
MaxIdLen == 3

\* largest file size
MaxSize == 2

\* longest list of ranges in a request
MaxSections == 2

----------------------------------------------------------------------------
\* Constants of downloader.py

CUT_FILE_MARKER == "_cut_"

FILE_STABILITY_CHECK_RETRIES == 3

MAX_FILE_FIND_RETRIES == 10

INITIAL_RETRY_DELAY == 1000

MAX_RETRY_DELAY == 3000

INCOMPLETE_FILE_EXTENSIONS == {".part", ".ytdl"}

VIDEO_EXTENSIONS == <<".mp4", ".webm", ".mkv", ".m4a", ".flv", ".avi", ".mov">>

\* a raised exception in place of a return value
Raised == <<"Raised">>

----------------------------------------------------------------------------
\* _sanitize_video_id

\* the characters of the class [<>:"|?*\x00-\x1f]; "\t", "\n" and "NUL" stand
\* for the control characters
ControlChars == {"\t", "\n", "NUL"}

RemovedChars == {"<", ">", ":", "\"", "|", "?", "*"} \cup ControlChars

PathSeparators == {"/", "\\"}

StripChars == {".", " "}

RECURSIVE LStrip(_)
LStrip(s) ==
    IF s # <<>> /\ Head(s) \in StripChars THEN LStrip(Tail(s)) ELSE s

RECURSIVE RStrip(_)
RStrip(s) ==
    IF s # <<>> /\ s[Len(s)] \in StripChars
    THEN RStrip(SubSeq(s, 1, Len(s) - 1))
    ELSE s

IsRemoved(c) == c \in RemovedChars

\* re.sub(r'[<>:"|?*\x00-\x1f]', '', video_id)
ReSub(video_id) == SelectSeq(video_id, LAMBDA c : ~IsRemoved(c))

\* str.strip('. ')
Strip(s) == RStrip(LStrip(s))

\* variant: an empty result is returned as it is
SanitizeVideoId_NoRaise(video_id) == Strip(ReSub(video_id))

\* variant: the ends are stripped before the characters are removed
SanitizeVideoId_StripFirst(video_id) ==
    LET sanitized == ReSub(Strip(video_id))
    IN  IF sanitized = <<>> THEN Raised ELSE sanitized

SanitizeVideoId(video_id) ==
    LET sanitized == Strip(ReSub(video_id))
    IN  IF sanitized = <<>> THEN Raised ELSE sanitized

----------------------------------------------------------------------------
\* Inputs of the sanitizer

SanChars == {"a", "/", "\\", ".", " ", "<", "\t"}

RECURSIVE StringsUpTo(_, _)
StringsUpTo(chars, n) ==
    IF n = 0 THEN {<<>>}
    ELSE LET shorter == StringsUpTo(chars, n - 1)
         IN  shorter \cup {Append(s, c) : s \in shorter, c \in chars}

SanInputs == StringsUpTo(SanChars, MaxIdLen)

----------------------------------------------------------------------------
\* Paths and files

NoPath == [dir |-> "", name |-> <<>>]

NoTime == -1

TmpPath(name) == [dir |-> "tmp", name |-> name]

\* self._get_temp_dir() / f'{video_id}{suffix}'
TempFile(video_id, suffix) == TmpPath(video_id \o suffix)

\* st_mtime of a file written during the run; older files have less
NowTime == 2

OldFile(size, data, mtime) ==
    [kind |-> "file", size |-> size, data |-> data, mtime |-> mtime]

File(size, data) == OldFile(size, data, NowTime)

Directory == [kind |-> "dir", size |-> 0, data |-> "dir", mtime |-> 0]

\* in place of the record of a path that does not exist
NoFile == [kind |-> "none", size |-> 0, data |-> "none", mtime |-> 0]

FileAt(f, p) == IF p \in DOMAIN f THEN f[p] ELSE NoFile

Exists(f, p) == p \in DOMAIN f

IsFile(f, p) == p \in DOMAIN f /\ f[p].kind = "file"

Write(f, p, rec) == [q \in DOMAIN f \cup {p} |-> IF q = p THEN rec ELSE f[q]]

Remove(f, ps) == [q \in DOMAIN f \ ps |-> f[q]]

HasPrefix(name, prefix) ==
    /\ Len(name) >= Len(prefix)
    /\ SubSeq(name, 1, Len(prefix)) = prefix

\* tokens that begin with a dot
DotTokens == {"."} \cup {VIDEO_EXTENSIONS[i] : i \in DOMAIN VIDEO_EXTENSIONS}
             \cup INCOMPLETE_FILE_EXTENSIONS \cup {".bak", ".ts"}

\* search_dir.glob(f'{search_id}*')
GlobPrefix(f, search_id) ==
    {p \in DOMAIN f : p.dir = "tmp" /\ HasPrefix(p.name, search_id)}

\* temp_dir.glob(f'{search_id}.*')
GlobDot(f, search_id) ==
    {p \in DOMAIN f : /\ p.dir = "tmp"
                      /\ HasPrefix(p.name, search_id)
                      /\ Len(p.name) > Len(search_id)
                      /\ p.name[Len(search_id) + 1] \in DotTokens}

\* variant: no partial file is ever seen
GlobPart_None(f, video_id) == {}

\* temp_dir.glob(f'{video_info.id}*.part')
GlobPart(f, video_id) ==
    {p \in GlobPrefix(f, video_id) :
        Len(p.name) > Len(video_id) /\ p.name[Len(p.name)] = ".part"}

IsCutFile(name) == \E i \in 1..Len(name) : name[i] = CUT_FILE_MARKER

IsIncompleteFile(name) ==
    name # <<>> /\ name[Len(name)] \in INCOMPLETE_FILE_EXTENSIONS

\* variant: the markers in the name are not looked at
IsValidVideoFile_AnyName(f, p) ==
    /\ Exists(f, p) /\ IsFile(f, p)
    /\ f[p].size # 0

IsValidVideoFile(f, p) ==
    /\ Exists(f, p) /\ IsFile(f, p)
    /\ f[p].size # 0
    /\ ~IsIncompleteFile(p.name)
    /\ ~IsCutFile(p.name)

\* _validate_output_path: the path is empty, or its parent cannot be made
ValidateOutputPath(p) == p.name # <<>> /\ p.dir # "readonly"

----------------------------------------------------------------------------
\* _check_file_stability

\* a stat() that raised
StatError == -1

RECURSIVE StabilityLoop(_, _, _, _)

\* variant: the size itself is not looked at
StabilityLoop_NoPositive(samples, i, sizes, max_checks) ==
    IF \A k \in 1..max_checks :
          samples[k] # StatError /\ samples[k] = samples[1]
    THEN "True" ELSE "False"

\* the loop over range(max_checks) and the return after it: "True", "False",
\* or "IndexError" when sizes[0] is read from an empty list
StabilityLoop(samples, i, sizes, max_checks) ==
    IF i > max_checks
    THEN IF Len(sizes) # max_checks THEN "False"
         ELSE IF sizes = <<>> THEN "IndexError"
         ELSE IF sizes[1] > 0 THEN "True" ELSE "False"
    ELSE IF samples[i] = StatError THEN "False"
    ELSE LET sizes2 == Append(sizes, samples[i])
         IN  IF Len(sizes2) > 1 /\ sizes2[Len(sizes2)] # sizes2[Len(sizes2) - 1]
             THEN "False"
             ELSE StabilityLoop(samples, i + 1, sizes2, max_checks)

\* exists is what file_path.exists() gives, samples[i] what the i-th
\* file_path.stat().st_size gives
CheckFileStability(exists, samples, max_checks) ==
    IF ~exists THEN "False"
    ELSE StabilityLoop(samples, 1, <<>>, max_checks)

\* What stat() can give for the files of f: a file nobody writes keeps its
\* size; a file that is still written shows non-decreasing sizes.
GrowingSamples(size) ==
    {s \in [1..FILE_STABILITY_CHECK_RETRIES -> size..MaxSize] :
        \A i \in 1..(FILE_STABILITY_CHECK_RETRIES - 1) : s[i] <= s[i + 1]}

Observations(f, g) ==
    {[p \in DOMAIN f |->
        IF p \in g /\ f[p].kind = "file" THEN o[p]
        ELSE [i \in 1..FILE_STABILITY_CHECK_RETRIES |-> f[p].size]] :
     o \in {x \in [g \cap DOMAIN f -> GrowingSamples(0)] :
               \A p \in DOMAIN x : x[p][1] >= f[p].size}}

IsStable(f, obs, p) ==
    CheckFileStability(Exists(f, p),
                       IF Exists(f, p) THEN obs[p] ELSE <<>>,
                       FILE_STABILITY_CHECK_RETRIES) = "True"

\* p has come through _is_valid_video_file and _check_file_stability
BothPassed(p) == {<<"valid", p>>, <<"stable", p>>}

\* the sizes a check of p saw
SamplesOf(f, obs, p) == IF Exists(f, p) THEN obs[p] ELSE <<>>

\* variant: the least is taken
ArgMax_Least(files, key) == {p \in files : \A q \in files : key[p] <= key[q]}

\* max(files, key=...): the candidates the key does not separate
ArgMax(files, key) == {p \in files : \A q \in files : key[q] <= key[p]}

----------------------------------------------------------------------------
\* _validate_ffmpeg_path

\* the characters the check for command injection names; "BQ" stands for
\* the backquote and "CR" for the carriage return
ShellMetaChars == {";", "&", "|", "BQ", "$", "(", ")", "<", ">", "\n", "CR"}

\* the default of os.environ.get('FFMPEG_PATH', 'ffmpeg')
DefaultFfmpeg == <<"ffmpeg">>

\* values of FFMPEG_PATH: unset or a bare name, an unknown name, absolute
\* paths, the empty string, and values that hold a metacharacter
FfmpegPaths ==
    {DefaultFfmpeg,
     <<"nosuch">>,
     <<"/", "bin", "/", "ffmpeg">>,
     <<"/", "gone", "/", "ffmpeg">>,
     <<>>,
     <<"ffmpeg", ";", "x">>,
     <<"/", "bin", "/", "ffmpeg", "|">>}

\* the values download_video runs under: the default, an unknown name and
\* a value with a metacharacter
PipelineFfmpegPaths == {DefaultFfmpeg, <<"nosuch">>, <<"ffmpeg", ";", "x">>}

\* absolute paths that exist, and the names shutil.which resolves
ExistingTools == {<<"/", "bin", "/", "ffmpeg">>}

ToolsOnPath == {DefaultFfmpeg}

\* Path.is_absolute()
IsAbsolute(path) == path # <<>> /\ path[1] = "/"

\* variant: a bare name is not looked up
ValidateFfmpegPath_NoSearch(ffmpeg_path_) ==
    IF ffmpeg_path_ = <<>> THEN "ValueError"
    ELSE IF \E i \in DOMAIN ffmpeg_path_ : ffmpeg_path_[i] \in ShellMetaChars
    THEN "ValueError"
    ELSE IF IsAbsolute(ffmpeg_path_)
    THEN IF ffmpeg_path_ \notin ExistingTools THEN "FileNotFoundError" ELSE "ok"
    ELSE "ok"

\* "ok" when the path is returned, else the exception raised
ValidateFfmpegPath(ffmpeg_path_) ==
    IF ffmpeg_path_ = <<>> THEN "ValueError"
    ELSE IF \E i \in DOMAIN ffmpeg_path_ : ffmpeg_path_[i] \in ShellMetaChars
    THEN "ValueError"
    ELSE IF IsAbsolute(ffmpeg_path_)
    THEN IF ffmpeg_path_ \notin ExistingTools THEN "FileNotFoundError" ELSE "ok"
    ELSE IF ffmpeg_path_ \notin ToolsOnPath THEN "FileNotFoundError" ELSE "ok"

----------------------------------------------------------------------------
\* Requests, metadata and outcomes

\* identifiers the extraction service reports
VideoIds == {<<"a", "b">>, <<" ", "a">>, <<".">>, <<>>}

NoInfo == [id |-> <<>>, is_live |-> FALSE, found |-> FALSE]

Info(id, live) == [id |-> id, is_live |-> live, found |-> TRUE]

ProbeResults ==
    {NoInfo} \cup {Info(id, FALSE) : id \in VideoIds}
             \cup {Info(<<"a", "b">>, TRUE)}

\* how ydl.extract_info(url, download=False) ends: with metadata, with no
\* data, or with an exception of one of the classes the except clauses name
ProbeFailures ==
    {"none", "DownloadError", "ExtractorError", "DataError", "Exception"}

ProbeOutcomes ==
    {[kind |-> "info", info |-> i] : i \in ProbeResults \ {NoInfo}}
    \cup {[kind |-> k, info |-> NoInfo] : k \in ProbeFailures}

\* variant: an exception the first except clauses do not name escapes
ExtractVideoInfo_Reraise(outcome) ==
    [raised |-> outcome.kind = "Exception",
     info |-> IF outcome.kind = "info" THEN outcome.info ELSE NoInfo]

\* extract_video_info: [raised, info], info being NoInfo for None
ExtractVideoInfo(outcome) ==
    [raised |-> FALSE,
     info |-> IF outcome.kind = "info" THEN outcome.info ELSE NoInfo]

OutFile == [dir |-> "out", name |-> <<"o", ".mp4">>]

\* destinations: a fresh file, a name ending in a partial marker, an existing
\* directory, the path of the cached asset itself, an uncreatable parent
DestPaths == {OutFile,
              [dir |-> "out", name |-> <<"o", ".part">>],
              [dir |-> "out", name |-> <<"d">>],
              [dir |-> "tmp", name |-> <<"a", "b", ".mp4">>],
              [dir |-> "readonly", name |-> <<"o", ".mp4">>],
              NoPath}

\* (start, end) pairs
Ranges == {<<10, 30>>, <<30, 10>>}

SingleRanges == {<<NoTime, NoTime>>, <<10, 30>>, <<30, 10>>, <<NoTime, 30>>,
                 <<10, NoTime>>}

RECURSIVE ListsUpTo(_, _)
ListsUpTo(elems, n) ==
    IF n = 0 THEN {<<>>}
    ELSE LET shorter == ListsUpTo(elems, n - 1)
         IN  shorter \cup {Append(s, e) : s \in shorter, e \in elems}

SectionLists == ListsUpTo(Ranges, MaxSections)

DefaultQuality == "bestvideo+bestaudio/best"

Request(out, dfs, q, st, en, secs) ==
    [output_path |-> out, download_from_start |-> dfs, quality |-> q,
     start_time |-> st, end_time |-> en, sections |-> secs]

NoRequest == Request(NoPath, FALSE, DefaultQuality, NoTime, NoTime, <<>>)

\* A None list of ranges and an empty one are both <<>>: the code tests
\* "sections and len(sections) > 0".
AliasDest == TmpPath(<<"a", "b", ".mp4">>)

\* every kind of range with the plain destination; every destination with
\* no range; the destination that is the cached asset with a range
Requests ==
    {Request(OutFile, FALSE, DefaultQuality, r[1], r[2], <<>>) : r \in SingleRanges}
    \cup {Request(OutFile, FALSE, DefaultQuality, NoTime, NoTime, secs) :
            secs \in SectionLists}
    \cup {Request(OutFile, FALSE, DefaultQuality, NoTime, 30, <<<<10, 30>>>>),
          Request(OutFile, FALSE, "worst", NoTime, NoTime, <<>>),
          Request(OutFile, TRUE, DefaultQuality, NoTime, NoTime, <<>>)}
    \cup {Request(out, FALSE, DefaultQuality, NoTime, NoTime, <<>>) :
            out \in DestPaths}
    \cup {Request(AliasDest, FALSE, DefaultQuality, NoTime, 30, <<>>),
          Request(AliasDest, FALSE, DefaultQuality, NoTime, NoTime, <<<<10, 30>>>>)}

NoError == [cls |-> "none", at |-> 0]

NoMessage == [msg |-> "", err |-> NoError]

Message(msg) == [msg |-> msg, err |-> NoError]

DownloadResult(success, file_path, file_size, error_message, info, cached) ==
    [success |-> success, file_path |-> file_path, file_size |-> file_size,
     error_message |-> error_message, video_info |-> info,
     cached_file_path |-> cached]

NoResult == DownloadResult(FALSE, NoPath, -1, NoMessage, NoInfo, NoPath)

Failure(error_message, info) ==
    DownloadResult(FALSE, NoPath, -1, error_message, info, NoPath)

----------------------------------------------------------------------------
\* Initial file systems

CacheAB == TmpPath(<<"a", "b", ".mp4">>)

OldOutput == (OutFile :> OldFile(1, "old", 0))

InitialFiles ==
    { <<>>,
      OldOutput,
      (CacheAB :> OldFile(2, "full", 1)),
      (CacheAB :> OldFile(2, "full", 1)) @@ OldOutput,
      (CacheAB :> OldFile(1, "full", 1)),
      (CacheAB :> OldFile(0, "full", 1)),
      (CacheAB :> OldFile(1, "full", 1))
          @@ (TmpPath(<<"a", "b", ".webm">>) :> OldFile(2, "full", 0)),
      (TmpPath(<<"a", ".mp4">>) :> OldFile(2, "full", 1)),
      (TmpPath(<<"a", "b", ".mp4", ".part">>) :> OldFile(1, "full", 1)),
      (TmpPath(<<"a", "b", ".mp4", ".ytdl">>) :> OldFile(1, "full", 1)),
      (TmpPath(<<"a", "b", ".bak">>) :> OldFile(1, "full", 1)) }

\* files that exist before the call whatever the cache holds
Surroundings ==
    ([dir |-> "out", name |-> <<"d">>] :> Directory)

\* nothing has been searched for, processed or returned yet
NothingDone ==
    /\ destBefore = NoFile
    /\ cached_video_path = NoPath
    /\ cacheSamples = <<>>
    /\ passed = {}
    /\ failedRange = -1
    /\ ffmpeg_path = DefaultFfmpeg
    /\ ffmpegOk = TRUE
    /\ findAttempt = 0
    /\ retry_delay = INITIAL_RETRY_DELAY
    /\ sleeps = <<>>
    /\ discoveryRuns = 0
    /\ searchCount = 0
    /\ foundSamples = <<>>
    /\ processed = <<>>
    /\ procInput = NoPath
    /\ origBefore = NoFile
    /\ sIndex = 0
    /\ section_files = <<>>
    /\ concat_file = NoPath
    /\ toolCalls = <<>>
    /\ tempsWritten = {}
    /\ unlinkFailed = FALSE
    /\ stitchRet = "none"
    /\ stitchCaller = "none"
    /\ result = NoResult

\* download_video has not been called
Idle ==
    /\ pc = "idle"
    /\ req = NoRequest
    /\ video_info = NoInfo
    /\ sanitized_video_id = <<>>
    /\ original_file_path = NoPath
    /\ final_path = NoPath
    /\ last_error = NoError
    /\ fmtIdx = 1
    /\ attempts = <<>>
    /\ probeCalls = <<>>
    /\ cacheLookups = 0
    /\ stages = <<>>
    /\ NothingDone

\* the cached asset may still be written by the call that downloads it
InitPipe ==
    /\ \E f \in InitialFiles : fs = f @@ Surroundings
    /\ growing \in {{}, {CacheAB}}
    /\ growing # {} => fs = (CacheAB :> OldFile(1, "full", 1)) @@ Surroundings
    /\ Idle

InitSan ==
    sanIn = <<>> /\ sanOut = <<>> /\ sanAgain = <<>> /\ sanPc = "idle"

\* cut_video, _check_file_stability and validate_url are not called on their own
NoCutCall ==
    [input_path |-> NoPath, output_path |-> NoPath,
     start_time |-> NoTime, end_time |-> NoTime]

NoStabilityCall == [exists |-> FALSE, samples |-> <<>>, max_checks |-> 0]

NoUrlCall ==
    [isStr |-> FALSE, scheme |-> <<>>, host |-> <<>>, path |-> <<>>,
     probe |-> [kind |-> "none", info |-> NoInfo]]

CutIdle == cutIn = NoCutCall /\ cutOut = FALSE /\ cutPc = "idle"

StabIdle == stabIn = NoStabilityCall /\ stabOut = "none" /\ stabPc = "idle"

UrlIdle == urlIn = NoUrlCall /\ urlOut = FALSE /\ urlPc = "idle"

\* main's video_info before the probe, and when the probe gave None
NoMainInfo ==
    [id |-> <<>>, is_live |-> FALSE, is_scheduled |-> FALSE, found |-> FALSE]

NoMainProbe == [kind |-> "none", info |-> NoInfo, live_status |-> "none"]

NoExit == [called |-> FALSE, code |-> 0]

NoOutput == [json |-> [written |-> FALSE], exit |-> NoExit]

NoArgv == [url |-> [isStr |-> TRUE, scheme |-> <<>>, host |-> <<>>,
                    path |-> <<>>],
           rest |-> <<>>]

MainIdle ==
    /\ mainIn = NoArgv /\ mainPc = "idle" /\ mainProbe = NoMainProbe
    /\ mainInfo = NoMainInfo /\ mainCalls = <<>> /\ mainOut = NoOutput

HookIdle == hookCalls = <<>> /\ progressOut = <<>>

TwinIdle == twin = <<>>

BuiltIdle == built = {}

InitUnits == CutIdle /\ StabIdle /\ UrlIdle /\ MainIdle /\ HookIdle /\ TwinIdle /\ BuiltIdle

dlVars == <<last_error, fmtIdx, attempts, final_path>>

findVars == <<findAttempt, retry_delay, sleeps, discoveryRuns, searchCount,
              foundSamples>>

procVars == <<processed, procInput, origBefore>>

stitchVars == <<sIndex, section_files, concat_file, tempsWritten,
                unlinkFailed, stitchRet, stitchCaller, failedRange>>

\* download_video returns res
Return(res) == pc' = "returned" /\ result' = res

----------------------------------------------------------------------------
\* download_video: entry, metadata probe, identifier check

\* download_video(url, output_path, ...) is called
Call ==
    /\ pc = "idle"
    /\ \E r \in Requests :
          /\ req' = r
          /\ destBefore' = FileAt(fs, r.output_path)
          /\ IF ~ValidateOutputPath(r.output_path)
             THEN Return(Failure(Message("Invalid output path"), NoInfo))
             ELSE pc' = "probe" /\ UNCHANGED result
    /\ UNCHANGED <<fs, growing, ffVars, video_info, sanitized_video_id,
                   original_file_path, dlVars, findVars, procVars, stitchVars,
                   toolCalls>>
    /\ UNCHANGED <<sanVars, unitVars, histVars, cached_video_path>>

\* extract_video_info, then _sanitize_video_id(video_info.id)
Probe ==
    /\ pc = "probe"
    /\ \E outcome \in ProbeOutcomes :
       LET extracted == ExtractVideoInfo(outcome)
           info == extracted.info
       IN /\ probeCalls' = Append(probeCalls, outcome.kind)
          /\ stages' = stages \o <<"probe">>
                        \o (IF info.found THEN <<"sanitize">> ELSE <<>>)
          /\ video_info' = info
          /\ IF extracted.raised
             THEN pc' = "raised" /\ UNCHANGED <<result, sanitized_video_id>>
             ELSE IF ~info.found
             THEN /\ Return(Failure(Message("Failed to extract video information"),
                                    NoInfo))
                  /\ UNCHANGED sanitized_video_id
             ELSE IF SanitizeVideoId(info.id) = Raised
             THEN /\ Return(Failure(Message("Invalid video ID"), info))
                  /\ UNCHANGED sanitized_video_id
             ELSE /\ sanitized_video_id' = SanitizeVideoId(info.id)
                  /\ pc' = "cache"
                  /\ UNCHANGED result
    /\ UNCHANGED <<fs, growing, req, ffVars, original_file_path, dlVars,
                   findVars, procVars, stitchVars, toolCalls>>
    /\ UNCHANGED <<sanVars, unitVars, cacheLookups, cacheSamples, passed,
                   destBefore,
                   cached_video_path>>

----------------------------------------------------------------------------
\* _get_cached_video_path

\* search_ids: the raw identifier, then the sanitized one if it differs
SearchIds(video_id) ==
    LET sanitized_id == SanitizeVideoId(video_id)
    IN  IF sanitized_id = Raised \/ sanitized_id = video_id
        THEN <<video_id>>
        ELSE <<video_id, sanitized_id>>

\* the first known extension whose file is valid and stable, 0 if none
RECURSIVE FirstStableExt(_, _, _, _)
FirstStableExt(f, obs, search_id, i) ==
    IF i > Len(VIDEO_EXTENSIONS) THEN 0
    ELSE LET cached_path == TempFile(search_id, <<VIDEO_EXTENSIONS[i]>>)
         IN  IF /\ Exists(f, cached_path)
                /\ IsValidVideoFile(f, cached_path)
                /\ IsStable(f, obs, cached_path)
             THEN i
             ELSE FirstStableExt(f, obs, search_id, i + 1)

\* a path returned, with the sizes its stability check saw
Hit(f, obs, p) == [path |-> p, samples |-> SamplesOf(f, obs, p)]

NoHit == [path |-> NoPath, samples |-> <<>>]

\* what one iteration of "for search_id in search_ids" can return, NoHit
\* when the iteration falls through; obs is what the checks of the loop over
\* the extensions see, again what the check of the largest match sees
CachedForId(f, obs, again, search_id) ==
    LET i == FirstStableExt(f, obs, search_id, 1)
        matching_files == {p \in GlobDot(f, search_id) : IsValidVideoFile(f, p)}
    IN  IF i # 0 THEN {Hit(f, obs, TempFile(search_id, <<VIDEO_EXTENSIONS[i]>>))}
        ELSE IF matching_files = {} THEN {NoHit}
        ELSE {IF IsStable(f, again, candidate)
              THEN Hit(f, again, candidate) ELSE NoHit :
                 candidate \in ArgMax(matching_files,
                                      [p \in matching_files |-> f[p].size])}

RECURSIVE CachedFrom(_, _, _, _, _)

\* variant: only the raw identifier is tried
CachedFrom_RawOnly(f, obs, again, search_ids, k) ==
    CachedForId(f, obs, again, search_ids[1])

CachedFrom(f, obs, again, search_ids, k) ==
    IF k > Len(search_ids) THEN {NoHit}
    ELSE LET here == CachedForId(f, obs, again, search_ids[k])
         IN  (here \ {NoHit})
             \cup (IF NoHit \in here
                   THEN CachedFrom(f, obs, again, search_ids, k + 1) ELSE {})

GetCachedVideoPath(f, obs, again, video_id) ==
    CachedFrom(f, obs, again, SearchIds(video_id), 1)

\* variant: the cached asset is found but the download runs all the same
AfterCacheLookup_Download(f, cached) == "download"

\* where download_video goes after the cache lookup
AfterCacheLookup(f, cached) ==
    IF cached # NoPath
    THEN IF ~Exists(f, cached) \/ ~IsValidVideoFile(f, cached)
         THEN "cache_invalid"
         ELSE "validate"
    ELSE "download"

CacheLookup ==
    /\ pc = "cache"
    /\ cacheLookups' = cacheLookups + 1
    /\ stages' = Append(stages, "cache")
    /\ \E obs \in Observations(fs, growing) :
       \E again \in Observations(fs, growing) :
       \E hit \in GetCachedVideoPath(fs, obs, again, video_info.id) :
       LET cached == hit.path
       IN /\ cached_video_path' = cached
          /\ cacheSamples' = hit.samples
          /\ passed' = IF cached # NoPath THEN passed \cup BothPassed(cached)
                       ELSE passed
          /\ original_file_path' = cached
          /\ LET next == AfterCacheLookup(fs, cached)
             IN  IF next = "cache_invalid"
                 THEN Return(Failure(Message("Cached video file not found or invalid"),
                                     video_info))
                 ELSE pc' = next /\ UNCHANGED result
    /\ UNCHANGED <<fs, growing, req, ffVars, video_info, sanitized_video_id,
                   dlVars, findVars, procVars, stitchVars, toolCalls>>
    /\ UNCHANGED <<sanVars, unitVars, probeCalls, destBefore>>

----------------------------------------------------------------------------
\* The format-preference loop

\* variant: one more selector is tried
FormatSelectors_Five(quality) ==
    <<quality,
      "bestvideo+bestaudio/best",
      "best[ext=mp4]/best[ext=webm]/best",
      "best",
      "worst">>

FormatSelectors(quality) ==
    <<quality,
      "bestvideo+bestaudio/best",
      "best[ext=mp4]/best[ext=webm]/best",
      "best">>

\* how ydl.download([url]) ends: normally, with a DownloadError whose message
\* names an unavailable format, one that names 403/Forbidden, any other
\* DownloadError, or any other exception
DownloadOutcomes == {"ok", "format", "forbidden", "download_error", "exception"}

\* variant: every failure continues with the next selector
IsRecoverable_Always(err) == TRUE

\* variant: every DownloadError continues with the next selector
IsRecoverable_AnyDownloadError(err) ==
    err \in {"format", "forbidden", "download_error"}

\* the except clauses that "continue"
IsRecoverable(err) == err \in {"format", "forbidden"}

\* variant: only the first error is kept
RecordError_KeepFirst(prev, err, at) ==
    IF prev = NoError THEN [cls |-> err, at |-> at] ELSE prev

\* last_error = e
RecordError(prev, err, at) == [cls |-> err, at |-> at]

\* variant: the loop's last error is not looked at after the loop
AllSelectorsFailed_Never(err, path) == FALSE

\* "if last_error and not original_file_path"
AllSelectorsFailed(err, path) == err # NoError /\ path = NoPath

\* what a download leaves in the temp directory and reports to the hook; a
\* format that is not available fails before anything is written
DownloadEffects(err) ==
    CASE err = "ok" -> {"complete", "unreported", "writing", "part", "nothing",
                        "elsewhere", "empty"}
      [] err \in {"format", "forbidden", "exception"} -> {"nothing"}
      [] OTHER -> {"nothing", "part"}

DownloadedFile(video_id, effect) ==
    CASE effect = "part" -> TempFile(video_id, <<".mp4", ".part">>)
      [] effect = "elsewhere" -> [dir |-> "cwd", name |-> video_id \o <<".mp4">>]
      [] OTHER -> TempFile(video_id, <<".mp4">>)

FsAfterDownload(f, video_id, effect) ==
    CASE effect = "nothing" -> f
      [] effect = "empty" -> Write(f, DownloadedFile(video_id, effect), File(0, "full"))
      [] effect = "writing" -> Write(f, DownloadedFile(video_id, effect), File(1, "full"))
      [] effect = "part" -> Write(f, DownloadedFile(video_id, effect), File(1, "full"))
      [] OTHER -> Write(f, DownloadedFile(video_id, effect), File(2, "full"))

\* variant: a live video is always recorded from the live edge
YdlOpts_LiveOnly(info, download_from_start) ==
    IF info.is_live
    THEN [live_recording_duration |-> 3600, live_from_start |-> FALSE]
    ELSE [live_from_start |-> download_from_start]

\* the options of one attempt that depend on the video and the request; a
\* key the code does not set is not in the record
YdlOpts(info, download_from_start) ==
    IF info.is_live /\ ~download_from_start
    THEN [live_recording_duration |-> 3600, live_from_start |-> FALSE]
    ELSE [live_from_start |-> download_from_start]

DownloadAttempt ==
    /\ pc = "download"
    /\ \E err \in DownloadOutcomes :
       \E effect \in DownloadEffects(err) :
          /\ attempts' = Append(attempts,
                [sel |-> FormatSelectors(req.quality)[fmtIdx], err |-> err,
                 opts |-> YdlOpts(video_info, req.download_from_start)])
          /\ stages' = Append(stages, "download")
          /\ fs' = FsAfterDownload(fs, video_info.id, effect)
          /\ growing' = IF effect = "writing"
                        THEN growing \cup {DownloadedFile(video_info.id, effect)}
                        ELSE growing \ {DownloadedFile(video_info.id, effect)}
          /\ final_path' = IF effect \in {"complete", "writing", "elsewhere"}
                           THEN DownloadedFile(video_info.id, effect)
                           ELSE final_path
          /\ last_error' = IF err = "ok" THEN last_error
                           ELSE RecordError(last_error, err, fmtIdx)
          /\ IF err # "ok" /\ ~IsRecoverable(err)
             THEN pc' = "raised" /\ UNCHANGED <<fmtIdx, result>>
             ELSE IF err # "ok" /\ fmtIdx < Len(FormatSelectors(req.quality))
             THEN pc' = "download" /\ fmtIdx' = fmtIdx + 1 /\ UNCHANGED result
             ELSE /\ UNCHANGED fmtIdx
                  /\ IF AllSelectorsFailed(last_error', original_file_path)
                     THEN Return(Failure(
                            [msg |-> "All format selectors failed. Last error",
                             err |-> last_error'], video_info))
                     ELSE pc' = "discover" /\ UNCHANGED result
    /\ UNCHANGED <<req, ffVars, video_info, sanitized_video_id,
                   original_file_path, findVars, procVars, stitchVars, toolCalls>>
    /\ UNCHANGED <<sanVars, unitVars, probeCalls, cacheLookups, cacheSamples,
                   passed, destBefore, cached_video_path>>

----------------------------------------------------------------------------
\* _find_downloaded_file

\* variant: the captured completion path is not used
TrackerCandidate_Never(f, obs, captured) == FALSE

\* the captured completion path, when it is usable
TrackerCandidate(f, obs, captured) ==
    /\ captured # NoPath
    /\ Exists(f, captured) /\ IsValidVideoFile(f, captured)
    /\ IsStable(f, obs, captured)

\* what one iteration of "for search_id in search_ids" can return
FoundForId(f, obs, search_id) ==
    LET downloaded_files == {p \in GlobPrefix(f, search_id) : IsValidVideoFile(f, p)}
    IN  IF downloaded_files = {} THEN {NoPath}
        ELSE {IF IsStable(f, obs, candidate) THEN candidate ELSE NoPath :
                 candidate \in ArgMax(downloaded_files, [p \in downloaded_files |-> f[p].mtime])}

RECURSIVE FoundFrom(_, _, _, _)
FoundFrom(f, obs, search_ids, k) ==
    IF k > Len(search_ids) THEN {NoPath}
    ELSE LET here == FoundForId(f, obs, search_ids[k])
         IN  (here \ {NoPath})
             \cup (IF NoPath \in here
                   THEN FoundFrom(f, obs, search_ids, k + 1) ELSE {})

\* one attempt of the directory search
SearchOnce(f, obs, video_id) == FoundFrom(f, obs, SearchIds(video_id), 1)

Min(a, b) == IF a <= b THEN a ELSE b

\* variant: the delay is not capped
NextRetryDelay_NoCeiling(d) == (d * 3) \div 2

\* min(retry_delay * RETRY_BACKOFF_MULTIPLIER, MAX_RETRY_DELAY), multiplier 1.5
NextRetryDelay(d) == Min((d * 3) \div 2, MAX_RETRY_DELAY)

\* "if attempt < max_retries - 1"
MoreRetries(attempt, max_retries) == attempt < max_retries - 1

\* the first step of _find_downloaded_file: the captured path
Discover ==
    /\ pc = "discover"
    /\ discoveryRuns' = discoveryRuns + 1
    /\ stages' = Append(stages, "discover")
    /\ \E obs \in Observations(fs, growing) :
          IF TrackerCandidate(fs, obs, final_path)
          THEN /\ original_file_path' = final_path
               /\ foundSamples' = SamplesOf(fs, obs, final_path)
               /\ passed' = passed \cup BothPassed(final_path)
               /\ pc' = "validate"
               /\ UNCHANGED <<findAttempt, retry_delay>>
          ELSE /\ pc' = "search"
               /\ findAttempt' = 0
               /\ retry_delay' = INITIAL_RETRY_DELAY
               /\ UNCHANGED <<original_file_path, foundSamples, passed>>
    /\ UNCHANGED <<fs, growing, req, ffVars, video_info, sanitized_video_id,
                   dlVars, sleeps, searchCount, procVars, stitchVars, toolCalls,
                   result>>
    /\ UNCHANGED <<sanVars, unitVars, probeCalls, cacheLookups, cacheSamples,
                   destBefore, cached_video_path>>

\* one iteration of "for attempt in range(max_retries)", and what
\* download_video does when the search gives up
SearchAttempt ==
    /\ pc = "search"
    /\ searchCount' = searchCount + 1
    /\ \E obs \in Observations(fs, growing) :
       \E found_file \in SearchOnce(fs, obs, video_info.id) :
          IF found_file # NoPath
          THEN /\ original_file_path' = found_file
               /\ foundSamples' = SamplesOf(fs, obs, found_file)
               /\ passed' = passed \cup BothPassed(found_file)
               /\ pc' = "validate"
               /\ UNCHANGED <<findAttempt, retry_delay, sleeps, result>>
          ELSE IF MoreRetries(findAttempt, MAX_FILE_FIND_RETRIES)
          THEN /\ sleeps' = Append(sleeps, retry_delay)
               /\ retry_delay' = NextRetryDelay(retry_delay)
               /\ findAttempt' = findAttempt + 1
               /\ UNCHANGED <<pc, original_file_path, foundSamples, result,
                              passed>>
          ELSE /\ IF GlobPart(fs, video_info.id) # {}
                  THEN Return(Failure(Message("Download incomplete - only .part file found"),
                                      video_info))
                  ELSE Return(Failure(Message("Download completed but file not found after waiting"),
                                      video_info))
               /\ UNCHANGED <<findAttempt, retry_delay, sleeps,
                              original_file_path, foundSamples, passed>>
    /\ UNCHANGED <<fs, growing, req, ffVars, video_info, sanitized_video_id,
                   dlVars, discoveryRuns, procVars, stitchVars, toolCalls>>
    /\ UNCHANGED <<sanVars, unitVars, probeCalls, cacheLookups, cacheSamples,
                   stages, destBefore, cached_video_path>>

----------------------------------------------------------------------------
\* Validation of the full asset and its placement in the temp directory

\* Path.suffix
Suffix(p) == <<p.name[Len(p.name)]>>

\* variant: the source is moved, not copied
Copy2_Move(f, src, dst) ==
    IF Exists(f, dst) /\ f[dst].kind = "dir" THEN f
    ELSE Remove(Write(f, dst, File(f[src].size, f[src].data)), {src})

\* shutil.copy2(src, dst): dst gets the content of src; copying into an
\* existing directory leaves the directory entry as it is
Copy2(f, src, dst) ==
    IF Exists(f, dst) /\ f[dst].kind = "dir" THEN f
    ELSE Write(f, dst, File(f[src].size, f[src].data))

\* shutil.copy2 raises: SameFileError, or any OSError the system gives
CopyMustFail(src, dst) == src = dst

ValidateOriginal ==
    /\ pc = "validate"
    /\ IF ~IsValidVideoFile(fs, original_file_path)
       THEN /\ Return(Failure(Message("Downloaded file is invalid or incomplete"),
                              video_info))
            /\ UNCHANGED <<fs, original_file_path, passed>>
       ELSE IF original_file_path.dir # "tmp"
       THEN LET temp_file_path == TempFile(video_info.id, Suffix(original_file_path))
                valid == passed \cup {<<"valid", original_file_path>>}
            IN  IF ~Exists(fs, temp_file_path) \/ ~IsValidVideoFile(fs, temp_file_path)
                THEN \E copied \in BOOLEAN :
                       IF ~copied
                       THEN /\ Return(Failure(Message("Failed to store full video in temp directory (error)"),
                                              video_info))
                            /\ passed' = valid
                            /\ UNCHANGED <<fs, original_file_path>>
                       ELSE /\ fs' = Copy2(fs, original_file_path, temp_file_path)
                            /\ \E obs \in Observations(fs', growing) :
                                  IF ~IsStable(fs', obs, temp_file_path)
                                  THEN /\ Return(Failure(Message("Failed to store full video in temp directory"),
                                                         video_info))
                                       /\ passed' = valid
                                       /\ UNCHANGED original_file_path
                                  ELSE /\ original_file_path' = temp_file_path
                                       /\ passed' = valid \cup {<<"stable", temp_file_path>>}
                                       /\ pc' = "process"
                                       /\ UNCHANGED result
                ELSE /\ original_file_path' = temp_file_path
                     /\ passed' = valid \cup {<<"valid", temp_file_path>>}
                     /\ pc' = "process"
                     /\ UNCHANGED <<fs, result>>
       ELSE \E obs \in Observations(fs, growing) :
               /\ IF ~IsStable(fs, obs, original_file_path)
                  THEN /\ Return(Failure(Message("Full video file in temp directory is not stable"),
                                         video_info))
                       /\ passed' = passed \cup {<<"valid", original_file_path>>}
                  ELSE /\ pc' = "process" /\ UNCHANGED result
                       /\ passed' = passed \cup BothPassed(original_file_path)
               /\ UNCHANGED <<fs, original_file_path>>
    /\ UNCHANGED <<growing, req, ffVars, video_info, sanitized_video_id,
                   dlVars, findVars, procVars, stitchVars, toolCalls>>
    /\ UNCHANGED <<sanVars, unitVars, probeCalls, cacheLookups, cacheSamples,
                   stages, destBefore, cached_video_path>>

----------------------------------------------------------------------------
\* cut_video

\* how subprocess.run ends and what the tool leaves at its output path
ToolOutcomes ==
    {[exit |-> "ok", effect |-> e] : e \in {"data", "empty", "none"}}
    \cup {[exit |-> x, effect |-> e] :
             x \in {"nonzero", "timeout"}, e \in {"none", "data"}}
    \cup {[exit |-> "missing", effect |-> "none"]}

\* the tool cannot write a file over a directory, and it refuses an output
\* that is one of its inputs
ToolOutcomesAt(f, inputs, output_path) ==
    IF \/ Exists(f, output_path) /\ f[output_path].kind = "dir"
       \/ output_path \in inputs
    THEN {o \in ToolOutcomes : o.exit = "nonzero" /\ o.effect = "none"}
    ELSE ToolOutcomes

ToolWrite(f, output_path, effect) ==
    CASE effect = "none" -> f
      [] effect = "empty" -> Write(f, output_path, File(0, "clip"))
      [] OTHER -> Write(f, output_path, File(1, "clip"))

\* variant: the start is not subtracted
Duration_EndOnly(start_time, end_time) == end_time

\* end_time - start_time, or end_time alone
Duration(start_time, end_time) ==
    IF start_time # NoTime THEN end_time - start_time ELSE end_time

\* variant: a duration of zero is let through
InvalidDuration_Negative(start_time, end_time) ==
    end_time # NoTime /\ Duration(start_time, end_time) < 0

\* "if end_time is not None: ... if duration <= 0"
InvalidDuration(start_time, end_time) ==
    end_time # NoTime /\ Duration(start_time, end_time) <= 0

\* variant: subprocess.run without check=True
SubprocessRun_NoCheck(exit) == exit \in {"ok", "nonzero"}

\* subprocess.run(cmd, check=True, timeout=3600) returns without raising
SubprocessRun(exit) == exit = "ok"

NotRun(f) == [ret |-> FALSE, fs |-> f, calls |-> <<>>]

\* [ret, fs, calls]: the return value, the file system afterwards and the
\* invocations of the tool
CutVideo(f, input_path, output_path, start_time, end_time, ffOk, out) ==
    IF ~Exists(f, input_path) \/ ~IsFile(f, input_path) THEN NotRun(f)
    ELSE IF ~ValidateOutputPath(output_path) THEN NotRun(f)
    ELSE IF ~ffOk THEN NotRun(f)
    ELSE IF InvalidDuration(start_time, end_time) THEN NotRun(f)
    ELSE [ret |-> SubprocessRun(out.exit),
          fs |-> ToolWrite(f, output_path, out.effect),
          calls |-> <<[mode |-> "trim",
                       ss |-> start_time,
                       t |-> IF end_time # NoTime
                             THEN Duration(start_time, end_time) ELSE NoTime,
                       input |-> <<input_path>>,
                       output |-> output_path,
                       exit |-> out.exit]>>]

----------------------------------------------------------------------------
\* The processing step of download_video

\* "if sections and len(sections) > 0"
UseSections(r) == r.sections # <<>> /\ Len(r.sections) > 0

NeedsCut(r) ==
    IF UseSections(r) THEN TRUE
    ELSE r.start_time # NoTime \/ r.end_time # NoTime

\* variant: a single start/end goes before the list of ranges
ProcessingKind_SingleFirst(r) ==
    IF ~NeedsCut(r) THEN "copy"
    ELSE IF r.start_time # NoTime \/ r.end_time # NoTime THEN "trim"
    ELSE "stitch"

ProcessingKind(r) ==
    IF ~NeedsCut(r) THEN "copy"
    ELSE IF UseSections(r) THEN "stitch" ELSE "trim"

\* the checks after a trim or stitch that returned True
AfterCut(f, output_path, original) ==
    IF ~Exists(f, output_path) THEN "no_output"
    ELSE IF ~Exists(f, original) \/ ~IsValidVideoFile(f, original) THEN "lost"
    ELSE "verify"

\* download_video after cut_video / cut_and_concatenate_sections returned ret
\* with the file system f
ContinueAfterCut(ret, f, failMsg) ==
    IF ~ret THEN Return(Failure(Message(failMsg), video_info))
    ELSE LET next == AfterCut(f, req.output_path, original_file_path)
         IN  IF next = "no_output"
             THEN Return(Failure(Message("Video cut completed but output file not found"),
                                 video_info))
             ELSE IF next = "lost"
             THEN Return(Failure(Message("Original file in temp directory was lost after cutting"),
                                 video_info))
             ELSE pc' = next /\ UNCHANGED result

StartProcessing(kind) ==
    /\ pc = "process"
    /\ ProcessingKind(req) = kind
    /\ procInput' = original_file_path
    /\ origBefore' = FileAt(fs, original_file_path)

\* shutil.copy2(original_file_path, output_path)
ProcessCopy ==
    /\ StartProcessing("copy")
    /\ processed' = Append(processed, "copy")
    /\ stages' = Append(stages, "copy")
    /\ \E copied \in BOOLEAN :
          IF ~copied \/ CopyMustFail(original_file_path, req.output_path)
          THEN /\ Return(Failure(Message("Failed to copy file to requested location"),
                                 video_info))
               /\ UNCHANGED fs
          ELSE /\ fs' = Copy2(fs, original_file_path, req.output_path)
               /\ pc' = "verify"
               /\ UNCHANGED result
    /\ UNCHANGED <<growing, req, ffVars, video_info, sanitized_video_id,
                   original_file_path, dlVars, findVars, stitchVars, toolCalls>>
    /\ UNCHANGED <<sanVars, unitVars, probeCalls, cacheLookups, cacheSamples,
                   passed, destBefore, cached_video_path>>

\* cut_video(original_file_path, output_path, start_time, end_time);
\* os.environ.get('FFMPEG_PATH') is read here
ProcessTrim ==
    /\ StartProcessing("trim")
    /\ IF ~Exists(fs, original_file_path)
       THEN /\ Return(Failure(Message("Original file in temp directory not found before cutting"),
                              video_info))
            /\ UNCHANGED <<fs, processed, toolCalls, ffVars, stages>>
       ELSE \E configured \in PipelineFfmpegPaths :
            \E out \in ToolOutcomesAt(fs, {original_file_path}, req.output_path) :
               LET ff == ValidateFfmpegPath(configured) = "ok"
                   cut == CutVideo(fs, original_file_path, req.output_path,
                                   req.start_time, req.end_time, ff, out)
               IN  /\ ffmpeg_path' = configured
                   /\ ffmpegOk' = ff
                   /\ processed' = Append(processed, "trim")
                   /\ stages' = Append(stages, "trim")
                   /\ fs' = cut.fs
                   /\ toolCalls' = toolCalls \o cut.calls
                   /\ ContinueAfterCut(cut.ret, cut.fs, "Failed to cut video")
    /\ UNCHANGED <<growing, req, video_info, sanitized_video_id,
                   original_file_path, dlVars, findVars, stitchVars>>
    /\ UNCHANGED <<sanVars, unitVars, probeCalls, cacheLookups, cacheSamples,
                   passed, destBefore, cached_video_path>>

----------------------------------------------------------------------------
\* cut_and_concatenate_sections

Digit(i) ==
    CASE i = 0 -> "0" [] i = 1 -> "1" [] i = 2 -> "2" [] i = 3 -> "3"
      [] OTHER -> "n"

\* temp_dir / f'{video_id}_section_{index}.mp4'
SectionOutput(video_id, index) ==
    TempFile(video_id, <<"_section_", Digit(index), ".mp4">>)

\* temp_dir / f'{video_id}_concat.txt'
ConcatFile(video_id) == TempFile(video_id, <<"_concat", ".txt">>)

\* variant: no finally block
CleanupTargets_None(f, files, manifest) == {}

\* the paths the finally block unlinks
CleanupTargets(f, files, manifest) ==
    {files[i] : i \in {j \in DOMAIN files : Exists(f, files[j])}}
    \cup (IF manifest # NoPath /\ Exists(f, manifest) THEN {manifest} ELSE {})

RetName(ret) == IF ret THEN "true" ELSE "false"

\* cut_and_concatenate_sections has returned ret: download_video goes on,
\* or the call was made on its own
AfterStitch(caller, ret, f) ==
    IF caller = "download_video"
    THEN ContinueAfterCut(ret, f, "Failed to cut and concatenate video sections")
    ELSE pc' = "stitch_returned" /\ UNCHANGED result

\* "return ret" inside the try block: the finally block runs, then
\* the caller goes on; an unlink that raises is logged and skipped
StitchReturn(ret, f, files, manifest) ==
    \E failing \in SUBSET CleanupTargets(f, files, manifest) :
       /\ fs' = Remove(f, CleanupTargets(f, files, manifest) \ failing)
       /\ unlinkFailed' = (failing # {})
       /\ stitchRet' = RetName(ret)
       /\ AfterStitch(stitchCaller, ret, fs')

\* variant: the loop over the sections is skipped
FirstStitchStep_NoLoop(sections) == "stitch_concat"

\* "for index, (start_time, end_time) in enumerate(sections)" with no
\* section goes straight to the manifest
FirstStitchStep(sections) ==
    IF Len(sections) = 0 THEN "stitch_concat" ELSE "stitch_cut"

\* the checks at the head of cut_and_concatenate_sections and its locals;
\* os.environ.get('FFMPEG_PATH') is read after the two path checks
StitchEntry(caller, paths) ==
    /\ stitchCaller' = caller
    /\ sIndex' = 0
    /\ section_files' = <<>>
    /\ concat_file' = NoPath
    /\ tempsWritten' = {}
    /\ failedRange' = -1
    /\ IF \/ ~Exists(fs, original_file_path)
          \/ ~IsFile(fs, original_file_path)
          \/ ~ValidateOutputPath(req.output_path)
       THEN /\ stitchRet' = RetName(FALSE)
            /\ AfterStitch(caller, FALSE, fs)
            /\ UNCHANGED ffVars
       ELSE \E configured \in paths :
            LET ff == ValidateFfmpegPath(configured) = "ok"
            IN  /\ ffmpeg_path' = configured
                /\ ffmpegOk' = ff
                /\ IF ~ff
                   THEN /\ stitchRet' = RetName(FALSE)
                        /\ AfterStitch(caller, FALSE, fs)
                   ELSE /\ pc' = FirstStitchStep(req.sections)
                        /\ UNCHANGED <<stitchRet, result>>

\* download_video calls cut_and_concatenate_sections: the call, up to the
\* first iteration of the loop over the sections
StitchEnter ==
    /\ StartProcessing("stitch")
    /\ IF ~Exists(fs, original_file_path)
       THEN /\ Return(Failure(Message("Original file in temp directory not found before cutting"),
                              video_info))
            /\ UNCHANGED <<processed, stages, ffVars, stitchVars>>
       ELSE /\ processed' = Append(processed, "stitch")
            /\ stages' = Append(stages, "stitch")
            /\ StitchEntry("download_video", PipelineFfmpegPaths)
            /\ UNCHANGED unlinkFailed
    /\ UNCHANGED <<fs, growing, req, video_info, sanitized_video_id,
                   original_file_path, dlVars, findVars, toolCalls>>
    /\ UNCHANGED <<sanVars, unitVars, probeCalls, cacheLookups, cacheSamples,
                   passed, destBefore, cached_video_path>>

\* one iteration of "for index, (start_time, end_time) in enumerate(sections)"
StitchCut ==
    /\ pc = "stitch_cut"
    /\ LET section_output == SectionOutput(video_info.id, sIndex)
           range == req.sections[sIndex + 1]
       IN  \E out \in ToolOutcomesAt(fs, {original_file_path}, section_output) :
              LET cut == CutVideo(fs, original_file_path, section_output,
                                  range[1], range[2], ffmpegOk, out)
              IN  /\ toolCalls' = toolCalls \o cut.calls
                  /\ tempsWritten' = IF cut.calls # <<>> /\ out.effect # "none"
                                     THEN tempsWritten \cup {section_output}
                                     ELSE tempsWritten
                  /\ IF \/ ~cut.ret
                        \/ ~Exists(cut.fs, section_output)
                        \/ ~IsValidVideoFile(cut.fs, section_output)
                     THEN /\ StitchReturn(FALSE, cut.fs, section_files, concat_file)
                          /\ failedRange' = sIndex
                          /\ UNCHANGED <<sIndex, section_files>>
                     ELSE /\ section_files' = Append(section_files, section_output)
                          /\ fs' = cut.fs
                          /\ IF sIndex + 1 < Len(req.sections)
                             THEN sIndex' = sIndex + 1 /\ UNCHANGED pc
                             ELSE pc' = "stitch_concat" /\ UNCHANGED sIndex
                          /\ UNCHANGED <<unlinkFailed, stitchRet, failedRange,
                                         result>>
    /\ UNCHANGED <<growing, req, ffVars, video_info, sanitized_video_id,
                   original_file_path, dlVars, findVars, procVars, concat_file,
                   stitchCaller>>
    /\ UNCHANGED <<sanVars, unitVars, histVars, destBefore, cached_video_path>>

\* the manifest is written, the tool runs in concat mode, the output is
\* checked and the call returns
StitchConcat ==
    /\ pc = "stitch_concat"
    /\ LET manifest == ConcatFile(video_info.id)
           withManifest == Write(fs, manifest, File(1, "manifest"))
       IN  /\ concat_file' = manifest
           /\ tempsWritten' = tempsWritten \cup {manifest}
           /\ \E out \in ToolOutcomesAt(withManifest,
                                          {manifest} \cup {section_files[i] : i \in DOMAIN section_files},
                                          req.output_path) :
                 LET after == ToolWrite(withManifest, req.output_path, out.effect)
                 IN  /\ toolCalls' = Append(toolCalls,
                            [mode |-> "concat", ss |-> NoTime, t |-> NoTime,
                             input |-> section_files,
                             output |-> req.output_path,
                             exit |-> out.exit])
                     /\ StitchReturn(out.exit = "ok" /\ Exists(after, req.output_path),
                                     after, section_files, manifest)
    /\ UNCHANGED <<growing, req, ffVars, video_info, sanitized_video_id,
                   original_file_path, dlVars, findVars, procVars, sIndex,
                   section_files, failedRange, stitchCaller>>
    /\ UNCHANGED <<sanVars, unitVars, histVars, destBefore, cached_video_path>>

----------------------------------------------------------------------------
\* Final verification

\* variant: the size of the output is not looked at
FinalCheck_NoSize(f, final_file_path) ==
    IF ~Exists(f, final_file_path) \/ ~IsFile(f, final_file_path) THEN "missing"
    ELSE "ok"

\* the checks of "Final validation"
FinalCheck(f, final_file_path) ==
    IF ~Exists(f, final_file_path) \/ ~IsFile(f, final_file_path) THEN "missing"
    ELSE IF f[final_file_path].size = 0 THEN "empty"
    ELSE "ok"

Verify ==
    /\ pc = "verify"
    /\ stages' = Append(stages, "verify")
    /\ LET cached_file_path_str ==
               IF Exists(fs, original_file_path)
                  /\ IsValidVideoFile(fs, original_file_path)
               THEN original_file_path ELSE NoPath
           check == FinalCheck(fs, req.output_path)
       IN  IF check = "missing"
           THEN Return(Failure(Message("Final output file does not exist"), video_info))
           ELSE IF check = "empty"
           THEN Return(Failure(Message("Final output file is empty"), video_info))
           ELSE Return(DownloadResult(TRUE, req.output_path,
                                      fs[req.output_path].size, NoMessage,
                                      video_info, cached_file_path_str))
    /\ UNCHANGED <<fs, growing, req, ffVars, video_info, sanitized_video_id,
                   original_file_path, dlVars, findVars, procVars, stitchVars,
                   toolCalls>>
    /\ UNCHANGED <<sanVars, unitVars, probeCalls, cacheLookups, cacheSamples,
                   passed, destBefore, cached_video_path>>

----------------------------------------------------------------------------
\* The other writer of the temp directory finishes a file

WriterFinishes ==
    /\ pc \notin {"idle", "returned", "raised"}
    /\ \E p \in growing : growing' = growing \ {p}
    /\ UNCHANGED <<fs, pc, req, ffVars, video_info, sanitized_video_id,
                   original_file_path, dlVars, findVars, procVars, stitchVars,
                   toolCalls, result>>
    /\ UNCHANGED <<sanVars, unitVars, histVars, destBefore, cached_video_path>>

----------------------------------------------------------------------------
\* download_video

Next ==
    \/ Call
    \/ Probe
    \/ CacheLookup
    \/ DownloadAttempt
    \/ Discover
    \/ SearchAttempt
    \/ ValidateOriginal
    \/ ProcessCopy
    \/ ProcessTrim
    \/ StitchEnter
    \/ StitchCut
    \/ StitchConcat
    \/ Verify
    \/ WriterFinishes

Init == InitPipe /\ InitSan /\ InitUnits

Spec == Init /\ [][Next]_vars

----------------------------------------------------------------------------
\* _sanitize_video_id called on its own

SanitizeCall ==
    /\ sanPc = "called"
    /\ sanOut' = SanitizeVideoId(sanIn)
    /\ sanPc' = "returned"
    /\ UNCHANGED <<sanIn, sanAgain, pipeVars, unitVars>>

\* the identifier it returned is given to it once more
SanitizeAgain ==
    /\ sanPc = "returned"
    /\ sanOut # Raised
    /\ sanAgain' = SanitizeVideoId(sanOut)
    /\ sanPc' = "again"
    /\ UNCHANGED <<sanIn, sanOut, pipeVars, unitVars>>

NextSan == SanitizeCall \/ SanitizeAgain

InitSanCall ==
    /\ fs = Surroundings /\ growing = {} /\ Idle
    /\ InitUnits
    /\ sanIn \in SanInputs
    /\ sanOut = <<>>
    /\ sanAgain = <<>>
    /\ sanPc = "called"

SpecSan == InitSanCall /\ [][NextSan]_vars

----------------------------------------------------------------------------
\* cut_video called on its own

\* longest sequence of size samples
MaxChecks == 3

CutTimes == {NoTime, 0, 10, 30}

\* a file, a directory and a path that does not exist
CutInputPaths == {CacheAB, [dir |-> "out", name |-> <<"d">>],
                  TmpPath(<<"a", ".mp4">>)}

CutOutputPaths == {OutFile, [dir |-> "out", name |-> <<"d">>], CacheAB, NoPath}

CutInputs ==
    {[input_path |-> i, output_path |-> o, start_time |-> st, end_time |-> en] :
        i \in CutInputPaths, o \in CutOutputPaths,
        st \in CutTimes, en \in CutTimes}

\* os.environ.get('FFMPEG_PATH') and the tool are what the call finds
CutVideoCall ==
    /\ cutPc = "called"
    /\ \E configured \in FfmpegPaths :
       \E out \in ToolOutcomesAt(fs, {cutIn.input_path}, cutIn.output_path) :
          LET ff == ValidateFfmpegPath(configured) = "ok"
              cut == CutVideo(fs, cutIn.input_path, cutIn.output_path,
                              cutIn.start_time, cutIn.end_time, ff, out)
          IN  /\ ffmpeg_path' = configured
              /\ ffmpegOk' = ff
              /\ fs' = cut.fs
              /\ toolCalls' = toolCalls \o cut.calls
              /\ cutOut' = cut.ret
    /\ cutPc' = "returned"
    /\ UNCHANGED <<growing, pc, req, destBefore, cached_video_path, video_info,
                   sanitized_video_id, original_file_path, dlVars, findVars,
                   procVars, stitchVars, result, histVars>>
    /\ UNCHANGED <<cutIn, sanVars, stabVars, urlVars, mainVars, hookVars, twinVars, builtVars>>

NextCut == CutVideoCall

InitCutCall ==
    /\ fs = (CacheAB :> OldFile(2, "full", 1)) @@ Surroundings
    /\ growing = {} /\ Idle
    /\ InitSan /\ StabIdle /\ UrlIdle /\ MainIdle /\ HookIdle /\ TwinIdle /\ BuiltIdle
    /\ cutIn \in CutInputs
    /\ cutOut = FALSE
    /\ cutPc = "called"

SpecCut == InitCutCall /\ [][NextCut]_vars

----------------------------------------------------------------------------
\* cut_and_concatenate_sections called on its own; input_path is held in
\* original_file_path, sections and output_path in req, video_id in video_info

StitchCall ==
    /\ pc = "stitch_called"
    /\ StitchEntry("direct", FfmpegPaths)
    /\ UNCHANGED <<fs, growing, req, video_info, sanitized_video_id,
                   original_file_path, dlVars, findVars, procVars,
                   unlinkFailed, toolCalls>>
    /\ UNCHANGED <<sanVars, unitVars, histVars, destBefore, cached_video_path>>

NextStitch ==
    \/ StitchCall
    \/ StitchCut
    \/ StitchConcat

\* a file, a path that does not exist and a directory
StitchInputPaths == {CacheAB, TmpPath(<<"a", ".mp4">>),
                     [dir |-> "out", name |-> <<"d">>]}

StitchOutputPaths == {OutFile, [dir |-> "out", name |-> <<"d">>], NoPath}

StitchRequests ==
    {Request(out, FALSE, DefaultQuality, NoTime, NoTime, secs) :
        out \in StitchOutputPaths, secs \in SectionLists}

InitStitchCall ==
    /\ fs \in {(CacheAB :> OldFile(2, "full", 1)) @@ Surroundings,
               (CacheAB :> OldFile(2, "full", 1)) @@ OldOutput @@ Surroundings}
    /\ growing = {}
    /\ pc = "stitch_called"
    /\ req \in StitchRequests
    /\ original_file_path \in StitchInputPaths
    /\ video_info = Info(<<"a", "b">>, FALSE)
    /\ sanitized_video_id = <<"a", "b">>
    /\ final_path = NoPath
    /\ last_error = NoError
    /\ fmtIdx = 1
    /\ attempts = <<>>
    /\ probeCalls = <<>>
    /\ cacheLookups = 0
    /\ stages = <<>>
    /\ NothingDone
    /\ InitSan /\ InitUnits

SpecStitch == InitStitchCall /\ [][NextStitch]_vars

----------------------------------------------------------------------------
\* The two functions that run the external tool, each called on its own

NextTool ==
    \/ NextCut
    \/ NextStitch

SpecTool == (InitCutCall \/ InitStitchCall) /\ [][NextTool]_vars

----------------------------------------------------------------------------
\* _get_cached_video_path over the temp directories it can meet:
\* download_video has probed the video and is about to look the cache up

CacheIds == {<<"a", "b">>, <<" ", "a">>}

\* the files named after the identifier, raw or sanitized
CacheCandidates(video_id) ==
    IF video_id = <<"a", "b">>
    THEN {TmpPath(<<"a", "b", ".mp4">>), TmpPath(<<"a", "b", ".webm">>),
          TmpPath(<<"a", "b", ".bak">>), TmpPath(<<"a", "b", ".ts">>)}
    ELSE {TmpPath(<<" ", "a", ".mp4">>), TmpPath(<<" ", "a", ".bak">>),
          TmpPath(<<"a", ".mp4">>), TmpPath(<<"a", ".bak">>)}

\* files with a partial marker or the cut-file marker
MarkedCandidates(video_id) ==
    IF video_id = <<"a", "b">>
    THEN {TmpPath(<<"a", "b", ".mp4", ".part">>),
          TmpPath(<<"a", "b", ".", "_cut_", ".mp4">>)}
    ELSE {}

\* st_mtime of the files that were there before the call
ModifiedAt(p) == IF p.name[Len(p.name)] \in {".mp4", ".ts"} THEN 0 ELSE 1

\* every choice of which candidates exist and of their sizes
CacheFileSystems(video_id) ==
    {[p \in {q \in DOMAIN sz : sz[q] >= 0} \cup marked |->
         IF p \in marked THEN OldFile(MaxSize, "full", 1)
         ELSE OldFile(sz[p], "full", ModifiedAt(p))] :
       sz \in [CacheCandidates(video_id) -> -1..MaxSize],
       marked \in SUBSET MarkedCandidates(video_id)}

\* at most one of the files is still written by another call
OneWriter(f) ==
    {{}} \cup {{p} : p \in {q \in DOMAIN f :
                              /\ q.dir = "tmp"
                              /\ ~IsIncompleteFile(q.name)
                              /\ ~IsCutFile(q.name)}}

\* download_video has probed video_id and sanitized it
Probed(video_id) ==
    /\ req = Request(OutFile, FALSE, DefaultQuality, NoTime, NoTime, <<>>)
    /\ video_info = Info(video_id, FALSE)
    /\ sanitized_video_id = SanitizeVideoId(video_id)
    /\ original_file_path = NoPath
    /\ last_error = NoError
    /\ fmtIdx = 1
    /\ probeCalls = <<"info">>

InitCacheCall ==
    /\ \E video_id \in CacheIds :
          /\ \E f \in CacheFileSystems(video_id) : fs = f @@ Surroundings
          /\ Probed(video_id)
    /\ growing \in OneWriter(fs)
    /\ pc = "cache"
    /\ final_path = NoPath
    /\ attempts = <<>>
    /\ cacheLookups = 0
    /\ stages = <<"probe", "sanitize">>
    /\ NothingDone
    /\ InitSan /\ InitUnits

NextCache == CacheLookup

SpecCache == InitCacheCall /\ [][NextCache]_vars

----------------------------------------------------------------------------
\* _find_downloaded_file over the temp directories it can meet: a download
\* attempt of download_video has ended without an error

\* where the download may have left the file, and what the hook captured
CwdFile == [dir |-> "cwd", name |-> <<"a", "b", ".mp4">>]

CapturedPaths == {NoPath, TmpPath(<<"a", "b", ".mp4">>), CwdFile}

\* the file of this download and an older or newer file of the same video
FoundCandidates(video_id) ==
    IF video_id = <<"a", "b">>
    THEN {TmpPath(<<"a", "b", ".mp4">>), TmpPath(<<"a", "b", ".webm">>)}
    ELSE {TmpPath(<<" ", "a", ".mp4">>), TmpPath(<<"a", ".mp4">>)}

\* files the search must pass over
MarkedDownloads(video_id) ==
    IF video_id = <<"a", "b">>
    THEN {TmpPath(<<"a", "b", ".mp4", ".part">>),
          TmpPath(<<"a", "b", "_cut_", ".mp4">>)}
    ELSE {}

\* st_mtime of the other file of the video: before or after this download
OtherTimes == {NowTime - 1, NowTime + 1}

FoundFileSystems(video_id) ==
    {[p \in {q \in DOMAIN sz : sz[q] >= 0} \cup marked |->
         IF p \in marked THEN OldFile(MaxSize, "full", NowTime)
         ELSE IF p.name[Len(p.name)] = ".mp4" THEN File(sz[p], "full")
         ELSE OldFile(sz[p], "full", t)] :
       sz \in [FoundCandidates(video_id) -> -1..MaxSize],
       marked \in SUBSET MarkedDownloads(video_id),
       t \in OtherTimes}

InitFindCall ==
    /\ \E video_id \in CacheIds :
          /\ \E f \in FoundFileSystems(video_id) :
             \E elsewhere \in BOOLEAN :
                fs = f @@ Surroundings
                       @@ (IF elsewhere /\ video_id = <<"a", "b">>
                           THEN (CwdFile :> File(MaxSize, "full")) ELSE <<>>)
          /\ Probed(video_id)
          /\ final_path \in (IF video_id = <<"a", "b">>
                              THEN CapturedPaths ELSE {NoPath})
    /\ growing \in OneWriter(fs)
    /\ pc = "discover"
    /\ attempts = <<[sel |-> DefaultQuality, err |-> "ok",
                     opts |-> [live_from_start |-> FALSE]]>>
    /\ cacheLookups = 1
    /\ stages = <<"probe", "sanitize", "cache", "download">>
    /\ NothingDone
    /\ InitSan /\ InitUnits

NextFind ==
    \/ Discover
    \/ SearchAttempt
    \/ WriterFinishes

SpecFind == InitFindCall /\ [][NextFind]_vars

----------------------------------------------------------------------------
\* The cache lookup and the file search in a temp directory that is shared
\* with other videos and with the temporaries of a stitch of the same video

\* the asset of another video, whose identifier is this one followed by "c"
OtherAsset(video_id) == TempFile(video_id, <<"c", ".mp4">>)

SharedNeighbours(video_id) ==
    {OtherAsset(video_id), SectionOutput(video_id, 0), ConcatFile(video_id)}

\* the asset of the video itself is there or not; the other files were
\* written before or after it
SharedFileSystems(video_id) ==
    {[p \in own \cup others |->
         IF p \in own THEN File(MaxSize, "full") ELSE OldFile(1, "other", t)] :
       own \in SUBSET {TempFile(video_id, <<".mp4">>)},
       others \in SUBSET SharedNeighbours(video_id),
       t \in OtherTimes}

InitSharedCall ==
    /\ \E video_id \in CacheIds :
          /\ \E f \in SharedFileSystems(video_id) : fs = f @@ Surroundings
          /\ Probed(video_id)
          /\ \/ /\ pc = "cache"
                /\ final_path = NoPath
                /\ attempts = <<>>
                /\ cacheLookups = 0
                /\ stages = <<"probe", "sanitize">>
             \/ /\ pc = "discover"
                /\ final_path \in {NoPath, TempFile(video_id, <<".mp4">>)}
                /\ attempts = <<[sel |-> DefaultQuality, err |-> "ok",
                                 opts |-> [live_from_start |-> FALSE]]>>
                /\ cacheLookups = 1
                /\ stages = <<"probe", "sanitize", "cache", "download">>
    /\ growing \in OneWriter(fs)
    /\ NothingDone
    /\ InitSan /\ InitUnits

NextShared ==
    \/ CacheLookup
    \/ Discover
    \/ SearchAttempt
    \/ WriterFinishes

SpecShared == InitSharedCall /\ [][NextShared]_vars

----------------------------------------------------------------------------
\* _check_file_stability called on its own

\* what stat().st_size gives, call after call: a size, or StatError
StabilitySamples == [1..MaxChecks -> {StatError} \cup (0..MaxSize)]

StabilityInputs ==
    {[exists |-> e, samples |-> sm, max_checks |-> n] :
        e \in BOOLEAN, sm \in StabilitySamples, n \in 0..MaxChecks}

StabilityCall ==
    /\ stabPc = "called"
    /\ stabOut' = CheckFileStability(stabIn.exists, stabIn.samples,
                                     stabIn.max_checks)
    /\ stabPc' = "returned"
    /\ UNCHANGED <<stabIn, pipeVars, sanVars, cutVars, urlVars, mainVars, hookVars, twinVars, builtVars>>

NextStab == StabilityCall

InitStabCall ==
    /\ fs = Surroundings /\ growing = {} /\ Idle
    /\ InitSan /\ CutIdle /\ UrlIdle /\ MainIdle /\ HookIdle /\ TwinIdle /\ BuiltIdle
    /\ stabIn \in StabilityInputs
    /\ stabOut = "none"
    /\ stabPc = "called"

SpecStab == InitStabCall /\ [][NextStab]_vars

----------------------------------------------------------------------------
\* validate_url

\* A URL is its scheme, its host and the rest, each a sequence of pieces of
\* text; the string the code sees is their concatenation.
UrlSchemes == {<<"https://">>, <<"http://">>, <<"ftp://">>, <<"://">>, <<>>}

UrlHosts == {<<"youtube", ".com">>, <<"www.", "youtube", ".com">>,
             <<"youtu", ".be">>, <<"not", "youtube", ".com">>,
             <<"youtube", ".fake", ".com">>, <<"example", ".com">>}

UrlPaths == {<<>>, <<"/", "watch">>, <<"/", "youtube", ".com">>}

\* None, 123 and the empty string
NonUrls ==
    {[isStr |-> FALSE, scheme |-> <<>>, host |-> <<>>, path |-> <<>>],
     [isStr |-> FALSE, scheme |-> <<>>, host |-> <<"123">>, path |-> <<>>],
     [isStr |-> TRUE, scheme |-> <<>>, host |-> <<>>, path |-> <<>>]}

Urls ==
    {[isStr |-> TRUE, scheme |-> sc, host |-> h, path |-> p] :
        sc \in UrlSchemes, h \in UrlHosts, p \in UrlPaths}
    \cup NonUrls

UrlInputs ==
    {[isStr |-> u.isStr, scheme |-> u.scheme, host |-> u.host,
      path |-> u.path, probe |-> o] : u \in Urls, o \in ProbeOutcomes}

UrlText(url) == url.scheme \o url.host \o url.path

\* "sub in text"
Contains(text, sub) ==
    \E i \in 1..(Len(text) - Len(sub) + 1) :
        SubSeq(text, i, i + Len(sub) - 1) = sub

\* url.startswith(('http://', 'https://'))
StartsWithHttp(text) == text # <<>> /\ text[1] \in {"http://", "https://"}

\* not ('youtube.com' not in url and 'youtu.be' not in url)
IsYouTubeUrl(url) ==
    \/ Contains(UrlText(url), <<"youtube", ".com">>)
    \/ Contains(UrlText(url), <<"youtu", ".be">>)

ValidateUrl(url, outcome) ==
    IF ~url.isStr \/ UrlText(url) = <<>> THEN FALSE
    ELSE IF ~StartsWithHttp(UrlText(url)) THEN FALSE
    ELSE IF ~IsYouTubeUrl(url) THEN FALSE
    ELSE LET extracted == ExtractVideoInfo(outcome)
         IN  IF extracted.raised THEN FALSE ELSE extracted.info # NoInfo

ValidateUrlCall ==
    /\ urlPc = "called"
    /\ urlOut' = ValidateUrl(urlIn, urlIn.probe)
    /\ urlPc' = "returned"
    /\ UNCHANGED <<urlIn, pipeVars, sanVars, cutVars, stabVars, mainVars, hookVars, twinVars, builtVars>>

NextUrl == ValidateUrlCall

InitUrlCall ==
    /\ fs = Surroundings /\ growing = {} /\ Idle
    /\ InitSan /\ CutIdle /\ StabIdle /\ MainIdle /\ HookIdle /\ TwinIdle /\ BuiltIdle
    /\ urlIn \in UrlInputs
    /\ urlOut = FALSE
    /\ urlPc = "called"

SpecUrl == InitUrlCall /\ [][NextUrl]_vars

----------------------------------------------------------------------------
\* main, regular download mode

\* An argument is a sequence of pieces of text.  sys.argv is the script name,
\* the URL and then the arguments of "rest".
Argv(in) == <<<<"downloader.py">>, UrlText(in.url)>> \o in.rest

\* str.strip()
StripArg(arg) ==
    LET kept == {i \in 1..Len(arg) : arg[i] # " "}
    IN  IF kept = {} THEN <<>>
        ELSE SubSeq(arg, CHOOSE i \in kept : \A j \in kept : i <= j,
                         CHOOSE i \in kept : \A j \in kept : i >= j)

\* str.lower()
LowerArg(arg) ==
    [i \in 1..Len(arg) |->
        IF arg[i] \in {"True", "TRUE"} THEN "true" ELSE arg[i]]

Numerals == {"0", "5", "10", "30"}

NumeralValue(t) ==
    CASE t = "0" -> 0 [] t = "5" -> 5 [] t = "10" -> 10 [] OTHER -> 30

\* int(arg): ok is FALSE where int raises ValueError
IntOf(arg) ==
    LET s == StripArg(arg)
    IN  IF Len(s) = 1 /\ s[1] \in Numerals
        THEN [ok |-> TRUE, value |-> NumeralValue(s[1])]
        ELSE IF Len(s) = 2 /\ s[1] = "-" /\ s[2] \in Numerals
        THEN [ok |-> TRUE, value |-> 0 - NumeralValue(s[2])]
        ELSE [ok |-> FALSE, value |-> 0]

\* start_time and end_time: None unless the argument is a number >= 0
ParseTime(arg) ==
    LET n == IntOf(arg)
    IN  IF StripArg(arg) # <<>> /\ n.ok /\ n.value >= 0
        THEN n.value ELSE NoTime

\* the elements a JSON list is written with: objects with and without
\* 'start' and 'end', and a number
JsonItems == {"{0,10}", "{10,30}", "{}", "7"}

\* json.loads of a text that starts with '[': ok is FALSE where it raises
JsonLoads(text) ==
    [ok |-> /\ Len(text) >= 2
            /\ text[Len(text)] = "]"
            /\ \A i \in 2..(Len(text) - 1) : text[i] \in JsonItems,
     items |-> SubSeq(text, 2, Len(text) - 1)]

\* (section.get('start'), section.get('end')), (None, None) for a non-dict
SectionOf(item) ==
    CASE item = "{0,10}" -> <<0, 10>>
      [] item = "{10,30}" -> <<10, 30>>
      [] OTHER -> <<NoTime, NoTime>>

\* the argument parsing of the download mode: the error it exits with, or
\* "none" and the arguments of download_video
ParseArgs(in) ==
    LET argv == Argv(in)
        n == Len(argv)
        last == argv[n]
        output_path == IF last # <<>> THEN StripArg(last) ELSE <<>>
        arg4 == StripArg(argv[5])
        isJson == n = 6 /\ arg4 # <<>> /\ arg4[1] = "["
        parsed == JsonLoads(arg4)
    IN  [error |->
            IF isJson /\ ~parsed.ok THEN "Failed to parse sections JSON"
            ELSE IF isJson /\ parsed.items = <<>>
            THEN "Invalid sections format: empty list or not a list"
            ELSE IF output_path = <<>> THEN "Output path is required"
            ELSE "none",
         output_path |-> output_path,
         download_from_start |-> n > 2 /\ LowerArg(argv[3]) = <<"true">>,
         quality |-> IF n > 3 THEN argv[4] ELSE <<DefaultQuality>>,
         start_time |->
            IF (n = 6 /\ ~isJson) \/ n >= 7 THEN ParseTime(argv[5])
            ELSE NoTime,
         end_time |-> IF n >= 7 THEN ParseTime(argv[6]) ELSE NoTime,
         sections |->
            IF isJson /\ parsed.ok
            THEN [i \in 1..Len(parsed.items) |-> SectionOf(parsed.items[i])]
            ELSE <<>>]

\* info.get('live_status')
LiveStatuses == {"is_live", "is_upcoming", "was_live", "not_live", "none"}

\* variant: no live_status counts as scheduled
IsScheduled_Never(live_status) == FALSE

\* is_scheduled = info.get('live_status') == 'is_upcoming'
IsScheduled(live_status) == live_status = "is_upcoming"

\* how the probe ends, with the live_status of the metadata it gives
MainProbes ==
    {[kind |-> "info", info |-> Info(<<"a", "b">>, ls = "is_live"),
      live_status |-> ls] : ls \in LiveStatuses}
    \cup {[kind |-> k, info |-> NoInfo, live_status |-> "none"] :
            k \in ProbeFailures}

\* the VideoInfo main gets from extract_video_info, NoMainInfo for None
MainVideoInfo(outcome) ==
    LET info == ExtractVideoInfo(outcome).info
    IN  IF info = NoInfo THEN NoMainInfo
        ELSE [id |-> info.id, is_live |-> info.is_live,
              is_scheduled |-> IsScheduled(outcome.live_status),
              found |-> TRUE]

Exit(code) == [called |-> TRUE, code |-> code]

\* json.dumps({'success': False, 'error': ...}) and sys.exit(1)
MainFails(error) ==
    /\ mainOut' = [json |-> [written |-> TRUE, success |-> FALSE,
                             error |-> error],
                   exit |-> Exit(1)]
    /\ mainPc' = "exited"

MainParse ==
    /\ mainPc = "called"
    /\ LET parsed == ParseArgs(mainIn)
       IN  IF parsed.error # "none" THEN MainFails(parsed.error)
           ELSE mainPc' = "validate" /\ UNCHANGED mainOut
    /\ UNCHANGED <<mainIn, mainProbe, mainInfo, mainCalls>>
    /\ UNCHANGED <<pipeVars, sanVars, cutVars, stabVars, urlVars, hookVars, twinVars, builtVars>>

\* downloader.validate_url(url), which makes a probe of its own
MainValidateUrl ==
    /\ mainPc = "validate"
    /\ mainCalls' = Append(mainCalls, "validate_url")
    /\ \E outcome \in MainProbes :
        IF ValidateUrl(mainIn.url, outcome)
        THEN mainPc' = "probe" /\ UNCHANGED mainOut
        ELSE MainFails("Invalid YouTube URL")
    /\ UNCHANGED <<mainIn, mainProbe, mainInfo>>
    /\ UNCHANGED <<pipeVars, sanVars, cutVars, stabVars, urlVars, hookVars, twinVars, builtVars>>

\* video_info = downloader.extract_video_info(url)
MainExtract ==
    /\ mainPc = "probe"
    /\ mainCalls' = Append(mainCalls, "extract_video_info")
    /\ \E outcome \in MainProbes :
        /\ mainProbe' = outcome
        /\ mainInfo' = MainVideoInfo(outcome)
        /\ IF MainVideoInfo(outcome) = NoMainInfo
           THEN MainFails("Failed to extract video information")
           ELSE mainPc' = "decide" /\ UNCHANGED mainOut
    /\ UNCHANGED mainIn
    /\ UNCHANGED <<pipeVars, sanVars, cutVars, stabVars, urlVars, hookVars, twinVars, builtVars>>

\* "if video_info.is_scheduled": the metadata is reported and main exits
MainScheduled ==
    /\ mainPc = "decide"
    /\ mainInfo.is_scheduled
    /\ mainOut' = [json |-> [written |-> TRUE, success |-> TRUE,
                             video_info |-> mainInfo,
                             message |-> "Video is scheduled",
                             scheduled |-> TRUE],
                   exit |-> Exit(0)]
    /\ mainPc' = "exited"
    /\ UNCHANGED <<mainIn, mainProbe, mainInfo, mainCalls>>
    /\ UNCHANGED <<pipeVars, sanVars, cutVars, stabVars, urlVars, hookVars, twinVars, builtVars>>

\* what download_video can return to main: success at the destination, a
\* failure after its own probe, a failure of that probe
MainResults(parsed, info) ==
    {[success |-> TRUE, video_info |-> info,
      file_path |-> parsed.output_path, error_message |-> "none"],
     [success |-> FALSE, video_info |-> info,
      file_path |-> <<>>, error_message |-> "failed"],
     [success |-> FALSE, video_info |-> NoMainInfo,
      file_path |-> <<>>, error_message |-> "failed"]}

\* result = downloader.download_video(...), written out; main returns
MainDownload ==
    /\ mainPc = "decide"
    /\ ~mainInfo.is_scheduled
    /\ mainCalls' = Append(mainCalls, "download_video")
    /\ \E r \in MainResults(ParseArgs(mainIn), mainInfo) :
        mainOut' = [json |-> [written |-> TRUE, success |-> r.success,
                              video_info |-> r.video_info,
                              file_path |-> r.file_path,
                              error_message |-> r.error_message],
                    exit |-> NoExit]
    /\ mainPc' = "returned"
    /\ UNCHANGED <<mainIn, mainProbe, mainInfo>>
    /\ UNCHANGED <<pipeVars, sanVars, cutVars, stabVars, urlVars, hookVars, twinVars, builtVars>>

NextMain ==
    \/ MainParse
    \/ MainValidateUrl
    \/ MainExtract
    \/ MainScheduled
    \/ MainDownload

OutArg == <<"out/o.mp4">>

MainUrls ==
    {u \in Urls : /\ u.isStr
                  /\ u.path = <<>>
                  /\ u.scheme \in {<<"https://">>, <<>>}
                  /\ u.host \in {<<"youtube", ".com">>, <<"example", ".com">>,
                                 <<>>}}

\* the arguments after the URL: none, the destination alone, the short form,
\* the form with a list of ranges, the form with two times
MainRests ==
    {<<>>,
     <<OutArg>>,
     <<<<"true">>, <<"best">>, OutArg>>,
     <<<<"True">>, <<"best">>, <<"[", "{0,10}", "{10,30}", "]">>, OutArg>>,
     <<<<"true">>, <<"best">>, <<" ", "[", "7", "]">>, <<" ">> \o OutArg>>,
     <<<<"false">>, <<"best">>, <<"[", "]">>, OutArg>>,
     <<<<"false">>, <<"best">>, <<"[", "{}">>, OutArg>>,
     <<<<"false">>, <<"best">>, <<"5">>, OutArg>>,
     <<<<"false">>, <<"best">>, <<" ">>, <<" ">>>>,
     <<<<"false">>, <<"best">>, <<"5">>, <<"10">>, OutArg>>,
     <<<<"false">>, <<"best">>, <<"-", "5">>, <<"x">>, OutArg>>,
     <<<<"false">>, <<"best">>, <<>>, <<>>, <<>>>>}

InitMainCall ==
    /\ fs = Surroundings /\ growing = {} /\ Idle
    /\ InitSan /\ CutIdle /\ StabIdle /\ UrlIdle /\ HookIdle /\ TwinIdle /\ BuiltIdle
    /\ mainIn \in {[url |-> u, rest |-> r] : u \in MainUrls, r \in MainRests}
    /\ mainPc = "called"
    /\ mainProbe = NoMainProbe
    /\ mainInfo = NoMainInfo
    /\ mainCalls = <<>>
    /\ mainOut = NoOutput

SpecMain == InitMainCall /\ [][NextMain]_vars

----------------------------------------------------------------------------
\* DownloadProgressTracker.create_hook

\* most callbacks one tracker is given
MaxCallbacks == 3

\* percentages are kept in tenths; None is -1
PercentStrings == {"", "50.5%", "N/A"}

\* float(percent_str.strip('%')): ok is FALSE where it raises ValueError
FloatOf(percent_str) ==
    IF percent_str = "50.5%" THEN [ok |-> TRUE, value |-> 505]
    ELSE [ok |-> FALSE, value |-> -1]

\* percent_float of a 'downloading' callback; absent byte counts are -1
PercentOf(d) ==
    IF d.percent_str # "" /\ FloatOf(d.percent_str).ok
    THEN FloatOf(d.percent_str).value
    ELSE IF d.downloaded_bytes # -1 /\ d.total_bytes # -1 /\ d.total_bytes > 0
    THEN (d.downloaded_bytes * 1000) \div d.total_bytes
    ELSE -1

\* variant: info_dict is not looked at
FilenameOf_KeyOnly(d) == d.filename

\* d.get('filename') or d.get('info_dict', {}).get('_filename')
FilenameOf(d) == IF d.filename # NoPath THEN d.filename ELSE d.info_filename

Callback(status, filename, info_filename, percent_str, downloaded, total) ==
    [status |-> status, filename |-> filename, info_filename |-> info_filename,
     percent_str |-> percent_str, downloaded_bytes |-> downloaded,
     total_bytes |-> total]

\* the dicts a hook is called with: completions with the file name in
\* either place, in both or in none; progress reports with a percent string,
\* with byte counts, with neither; other statuses and no status at all
Callbacks ==
    {Callback("finished", f, i, "", -1, -1) :
        f \in {NoPath, CacheAB}, i \in {NoPath, CwdFile}}
    \cup {Callback("downloading", NoPath, NoPath, ps, -1, -1) :
            ps \in PercentStrings}
    \cup {Callback("downloading", CacheAB, NoPath, "", 500, t) :
            t \in {1000, 0, -1}}
    \cup {Callback(st, CacheAB, NoPath, "50.5%", 500, 1000) :
            st \in {"error", "none"}}

ProgressData(d) ==
    [type |-> "progress", percent |-> PercentOf(d),
     downloaded_bytes |-> d.downloaded_bytes, total_bytes |-> d.total_bytes]

\* progress_hook(d)
ProgressHook ==
    /\ Len(hookCalls) < MaxCallbacks
    /\ \E d \in Callbacks :
        /\ hookCalls' = Append(hookCalls, d)
        /\ final_path' = IF d.status = "finished" /\ FilenameOf(d) # NoPath
                         THEN FilenameOf(d) ELSE final_path
        /\ progressOut' = IF d.status = "downloading"
                          THEN Append(progressOut, ProgressData(d))
                          ELSE progressOut
    /\ UNCHANGED <<fs, toolCalls, ffVars, growing, pc, req, destBefore,
                   cached_video_path, video_info, sanitized_video_id,
                   original_file_path, last_error, fmtIdx, attempts, findVars,
                   procVars, stitchVars, result, histVars>>
    /\ UNCHANGED <<sanVars, cutVars, stabVars, urlVars, mainVars, twinVars, builtVars>>

NextHook == ProgressHook

\* a tracker as __init__ leaves it
InitHook ==
    /\ fs = Surroundings /\ growing = {} /\ Idle
    /\ InitSan /\ InitUnits

SpecHook == InitHook /\ [][NextHook]_vars

----------------------------------------------------------------------------
\* Two calls of cut_and_concatenate_sections that run at the same time, in
\* two processes that share the temp directory.  Each has its own locals;
\* what a call writes carries the name of the call as its content.

Owner(i) == IF i = 1 THEN "first" ELSE "second"

TwinOutput(i) == [dir |-> "out", name |-> <<"o", Digit(i), ".mp4">>]

\* video_id = "local_video" of main's --local mode
LocalVideo == <<"local_video">>

\* two stitches of local files, or one of them for a downloaded video
TwinIds == {<<LocalVideo, LocalVideo>>, <<<<"a", "b">>, LocalVideo>>}

TwinCall(i, video_id, sections) ==
    [video_id |-> video_id, sections |-> sections, input_path |-> CacheAB,
     output_path |-> TwinOutput(i), pc |-> "called", index |-> 0,
     section_files |-> <<>>, concat_file |-> NoPath, ret |-> "none",
     read |-> "none"]

\* everything but the file system and the two calls stays as it is
TwinFrame ==
    /\ UNCHANGED <<toolCalls, ffVars, growing, pc, req, destBefore,
                   cached_video_path, video_info, sanitized_video_id,
                   original_file_path, dlVars, findVars, procVars, stitchVars,
                   result, histVars>>
    /\ UNCHANGED <<sanVars, cutVars, stabVars, urlVars, mainVars, hookVars,
                   builtVars>>

\* "return ret" of call i, whose locals are t: the finally block unlinks
\* what exists of its section files and its manifest
TwinReturn(i, t, ret, f) ==
    \E failing \in SUBSET CleanupTargets(f, t.section_files, t.concat_file) :
       /\ fs' = Remove(f, CleanupTargets(f, t.section_files, t.concat_file)
                            \ failing)
       /\ twin' = [twin EXCEPT ![i] =
                       [t EXCEPT !.pc = "returned", !.ret = RetName(ret)]]

\* the checks at the head of the function
TwinEnter(i) ==
    /\ twin[i].pc = "called"
    /\ IF \/ ~Exists(fs, twin[i].input_path)
          \/ ~IsFile(fs, twin[i].input_path)
          \/ ~ValidateOutputPath(twin[i].output_path)
          \/ ValidateFfmpegPath(DefaultFfmpeg) # "ok"
       THEN twin' = [twin EXCEPT ![i].pc = "returned", ![i].ret = RetName(FALSE)]
       ELSE twin' = [twin EXCEPT ![i].pc = FirstStitchStep(twin[i].sections)]
    /\ UNCHANGED fs
    /\ TwinFrame

\* one iteration of the loop over the sections
TwinCut(i) ==
    /\ twin[i].pc = "stitch_cut"
    /\ LET t == twin[i]
           section_output == SectionOutput(t.video_id, t.index)
           range == t.sections[t.index + 1]
       IN  \E out \in ToolOutcomesAt(fs, {t.input_path}, section_output) :
              LET cut == CutVideo(fs, t.input_path, section_output,
                                  range[1], range[2], TRUE, out)
                  after == IF cut.calls = <<>> \/ out.effect = "none"
                           THEN cut.fs
                           ELSE Write(cut.fs, section_output,
                                      [cut.fs[section_output]
                                          EXCEPT !.data = Owner(i)])
              IN  IF \/ ~cut.ret
                     \/ ~Exists(after, section_output)
                     \/ ~IsValidVideoFile(after, section_output)
                  THEN TwinReturn(i, t, FALSE, after)
                  ELSE /\ fs' = after
                       /\ twin' = [twin EXCEPT ![i] =
                            [t EXCEPT
                               !.section_files = Append(@, section_output),
                               !.index = IF @ + 1 < Len(t.sections)
                                         THEN @ + 1 ELSE @,
                               !.pc = IF t.index + 1 < Len(t.sections)
                                      THEN "stitch_cut" ELSE "stitch_concat"]]
    /\ TwinFrame

\* "with open(concat_file, 'w')": the manifest is written
TwinManifest(i) ==
    /\ twin[i].pc = "stitch_concat"
    /\ fs' = Write(fs, ConcatFile(twin[i].video_id), File(1, Owner(i)))
    /\ twin' = [twin EXCEPT ![i].concat_file = ConcatFile(twin[i].video_id),
                            ![i].pc = "stitch_run"]
    /\ TwinFrame

\* the manifest and every file it lists are there as call i wrote them
TwinIntact(f, t, i) ==
    /\ Exists(f, t.concat_file) /\ f[t.concat_file].data = Owner(i)
    /\ \A k \in DOMAIN t.section_files :
        /\ Exists(f, t.section_files[k])
        /\ f[t.section_files[k]].data = Owner(i)

\* the tool runs in concat mode and reads the manifest and the files it
\* lists; the output is checked and the call returns
TwinConcat(i) ==
    /\ twin[i].pc = "stitch_run"
    /\ LET t == [twin[i] EXCEPT
                    !.read = IF TwinIntact(fs, twin[i], i)
                             THEN "intact" ELSE "damaged"]
       IN  \E out \in ToolOutcomesAt(fs,
                        {t.concat_file}
                        \cup {t.section_files[k] : k \in DOMAIN t.section_files},
                        t.output_path) :
              LET after == ToolWrite(fs, t.output_path, out.effect)
              IN  TwinReturn(i, t,
                             out.exit = "ok" /\ Exists(after, t.output_path),
                             after)
    /\ TwinFrame

NextTwin ==
    \E i \in {1, 2} :
        \/ TwinEnter(i)
        \/ TwinCut(i)
        \/ TwinManifest(i)
        \/ TwinConcat(i)

InitTwin ==
    /\ fs = (CacheAB :> OldFile(2, "full", 1)) @@ Surroundings
    /\ growing = {} /\ Idle
    /\ InitSan /\ CutIdle /\ StabIdle /\ UrlIdle /\ MainIdle /\ HookIdle
    /\ BuiltIdle
    /\ twin \in {<<TwinCall(1, ids[1], first), TwinCall(2, ids[2], second)>> :
                    ids \in TwinIds,
                    first \in SectionLists \ {<<>>},
                    second \in SectionLists \ {<<>>}}

SpecTwin == InitTwin /\ [][NextTwin]_vars

----------------------------------------------------------------------------
\* The paths download_video builds from the identifier of the video

\* the parts of the temp directory
TempParts == <<<<"tmp">>>>

RECURSIVE SplitPath(_, _)
\* the text of a path cut at every '/': the segments, "seg" being the one
\* that is being read
SplitPath(text, seg) ==
    IF text = <<>> THEN <<seg>>
    ELSE IF Head(text) = "/" THEN <<seg>> \o SplitPath(Tail(text), <<>>)
    ELSE SplitPath(Tail(text), Append(seg, Head(text)))

RECURSIVE ResolveFrom(_, _)
\* Path.resolve(): empty and '.' segments are dropped, '..' steps up
ResolveFrom(parts, segs) ==
    IF segs = <<>> THEN parts
    ELSE IF Head(segs) \in {<<>>, <<".">>} THEN ResolveFrom(parts, Tail(segs))
    ELSE IF Head(segs) = <<".", ".">>
    THEN ResolveFrom(IF parts = <<>> THEN parts
                     ELSE SubSeq(parts, 1, Len(parts) - 1), Tail(segs))
    ELSE ResolveFrom(Append(parts, Head(segs)), Tail(segs))

\* variant: the name is kept as one segment whatever it holds
JoinTemp_OneSegment(name) == Append(TempParts, name)

\* (temp_dir / name).resolve(): a name that starts with '/' is absolute and
\* replaces the directory it is joined to
JoinTemp(name) ==
    IF name # <<>> /\ Head(name) = "/"
    THEN ResolveFrom(<<>>, SplitPath(name, <<>>))
    ELSE ResolveFrom(TempParts, SplitPath(name, <<>>))

\* the names download_video and cut_and_concatenate_sections give to
\* temp_dir: the output template, the cache copy, a section file, the
\* manifest
BuiltNames(video_id) ==
    {video_id \o <<".%(ext)s">>,
     video_id \o <<".mp4">>,
     video_id \o <<"_section_", "0", ".mp4">>,
     video_id \o <<"_concat", ".txt">>}

\* the identifier is sanitized and, when that does not raise, the paths are
\* built from the identifier the probe gave
BuildPaths ==
    /\ sanPc = "called"
    /\ sanOut' = SanitizeVideoId(sanIn)
    /\ built' = IF SanitizeVideoId(sanIn) = Raised THEN {}
                ELSE {JoinTemp(name) : name \in BuiltNames(sanIn)}
    /\ sanPc' = "returned"
    /\ UNCHANGED <<sanIn, sanAgain, pipeVars, cutVars, stabVars, urlVars,
                   mainVars, hookVars, twinVars>>

NextPaths == BuildPaths

SpecPaths == InitSanCall /\ [][NextPaths]_vars

----------------------------------------------------------------------------
\* Properties

Terminal == pc \in {"returned", "raised"}

RecoverableClasses == {"format", "forbidden"}

FatalClasses == {"download_error", "exception"}

LastAttempt == attempts[Len(attempts)]

AllRecoverable == \A i \in DOMAIN attempts : attempts[i].err \in RecoverableClasses

TrimCalls == SelectSeq(toolCalls, LAMBDA c : c.mode = "trim")

ConcatCalls == SelectSeq(toolCalls, LAMBDA c : c.mode = "concat")

NoLaterStage == discoveryRuns = 0 /\ processed = <<>> /\ toolCalls = <<>>

HasPartialMarker(p) ==
    \E i \in DOMAIN p.name : p.name[i] \in INCOMPLETE_FILE_EXTENSIONS

\* the first k attempts failed with a recoverable error, attempt k+1
\* succeeded, 1 <= k <= 3
FallbackThenSuccess ==
    /\ Len(attempts) \in 2..4
    /\ \A i \in 1..(Len(attempts) - 1) : attempts[i].err \in RecoverableClasses
    /\ LastAttempt.err = "ok"

InListOrder ==
    \A i \in DOMAIN attempts : attempts[i].sel = FormatSelectors(req.quality)[i]

\* the file the download wrote is in the temp directory, valid, and nobody
\* writes to it any more
DownloadedAssetReady ==
    LET p == TempFile(video_info.id, <<".mp4">>)
    IN  IsValidVideoFile(fs, p) /\ p \notin growing

\* C1: on a cache miss, when the first k format preferences fail with a
\* recoverable error and preference k+1 succeeds, k+1 attempts are made in
\* list order and, the downloaded file being there, valid and stable, the
\* outcome reports success.
C1_FallbackReportsSuccess ==
    (/\ pc = "returned"
     /\ cached_video_path = NoPath
     /\ FallbackThenSuccess
     /\ DownloadedAssetReady)
    => (InListOrder /\ result.success)

\* C2 as stated: success is reported only if the destination exists, is a
\* regular file, is not empty and its path carries no partial marker.
C2_SuccessImpliesNoPartialMarker ==
    (pc = "returned" /\ result.success)
    => /\ IsFile(fs, req.output_path)
       /\ fs[req.output_path].size > 0
       /\ ~HasPartialMarker(req.output_path)

\* C2 amended: success is reported only if, at the final check, the
\* destination exists, is a regular file and is not empty; the reported
\* path and size are those of that file.
C2_SuccessImpliesVerifiedOutput ==
    (pc = "returned" /\ result.success)
    => /\ Exists(fs, req.output_path)
       /\ IsFile(fs, req.output_path)
       /\ fs[req.output_path].size > 0
       /\ result.file_path = req.output_path
       /\ result.file_size = fs[req.output_path].size

C2_Witness ==
    /\ pc = "returned" /\ result.success
    /\ processed = <<"trim">>
    /\ Len(toolCalls) = 1

\* C3: a call that takes the trim or the stitch path leaves the cached full
\* asset in the temp directory as it was: not deleted, content unchanged.
C3_CachedAssetPreserved ==
    (pc = "returned" /\ processed \in {<<"trim">>, <<"stitch">>})
    => FileAt(fs, procInput) = origBefore

\* C4 as stated: whatever the class of a download failure, download_video
\* returns a failure outcome and nothing escapes as an exception.
C4_NoFailureEscapes ==
    (Terminal /\ \E i \in DOMAIN attempts : attempts[i].err # "ok")
    => /\ pc = "returned"
       /\ ~result.success
       /\ result.error_message # NoMessage

\* C4 amended: a failure of class "format unavailable" or "forbidden" never
\* escapes as an exception, and when all four preferences fail that way the
\* call returns a failure outcome with a message; a failure of any other
\* class is re-raised: the call ends with that exception and no outcome.
C4_OnlyFatalFailuresEscape ==
    /\ pc = "raised" => (attempts # <<>> /\ LastAttempt.err \in FatalClasses)
    /\ (attempts # <<>> /\ LastAttempt.err \in FatalClasses)
          => (pc = "raised" /\ result = NoResult)
    /\ (Len(attempts) = 4 /\ AllRecoverable)
          => /\ pc = "returned"
             /\ ~result.success
             /\ result.error_message # NoMessage

C4_Witness ==
    /\ pc = "raised"
    /\ Len(attempts) = 2
    /\ attempts[1].err = "forbidden"
    /\ attempts[2].err = "download_error"

\* C5: a download failure that is neither "format unavailable" nor
\* "forbidden" ends the loop at once: it is the last attempt, and no file
\* discovery, copy, trim or stitch runs afterwards.
C5_FatalFailureEndsLoop ==
    \A i \in DOMAIN attempts :
        attempts[i].err \in FatalClasses
        => /\ i = Len(attempts)
           /\ pc = "raised"
           /\ NoLaterStage
           /\ FileAt(fs, req.output_path) = destBefore

C5_Witness ==
    /\ pc = "raised"
    /\ Len(attempts) = 3
    /\ attempts[3].err = "exception"

\* C6: when all four format preferences fail with recoverable errors, the
\* call returns a failure outcome that carries the error of the last
\* attempt; no discovery, copy, trim or stitch runs and the destination is
\* not written.
C6_ExhaustedReportsLastError ==
    (Len(attempts) = 4 /\ AllRecoverable)
    => /\ pc = "returned"
       /\ ~result.success
       /\ result.error_message.err = [cls |-> attempts[4].err, at |-> 4]
       /\ NoLaterStage
       /\ FileAt(fs, req.output_path) = destBefore

C6_Witness ==
    /\ pc = "returned"
    /\ Len(attempts) = 4
    /\ attempts[1].err = "format"
    /\ attempts[4].err = "forbidden"

\* C7: when the cache lookup returns an asset, the call makes no download
\* attempt and runs no file discovery, and the cached asset is the input of
\* the copy, trim or stitch step.
C7_CacheHitSkipsAcquisition ==
    cached_video_path # NoPath
    => /\ attempts = <<>>
       /\ discoveryRuns = 0
       /\ processed # <<>> => procInput = cached_video_path
       /\ \A i \in DOMAIN TrimCalls : TrimCalls[i].input = <<cached_video_path>>

C7_Witness ==
    /\ cached_video_path # NoPath
    /\ pc = "returned" /\ result.success
    /\ processed = <<"stitch">>

\* C8: when cut_and_concatenate_sections has returned and no unlink failed,
\* no per-range temporary and no manifest written by the call remains.
C8_NoTemporaryRemains ==
    (stitchRet # "none" /\ ~unlinkFailed)
    => \A p \in tempsWritten : ~Exists(fs, p)

C10_NoSeparatorOrControl ==
    (sanPc = "returned" /\ sanOut # Raised)
    => \A i \in DOMAIN sanOut :
          sanOut[i] \notin (PathSeparators \cup ControlChars)

\* the identifier the probe gave is emptied by the sanitizer
EmptiedIdentifier ==
    video_info.found
    /\ \A i \in DOMAIN video_info.id :
          video_info.id[i] \in RemovedChars \cup StripChars

\* C11: when the probed identifier becomes empty under sanitization, the
\* call returns the "Invalid video ID" failure with the probed metadata, and
\* no cache lookup, download attempt, copy, trim or stitch is performed.
C11_EmptyIdentifierFails ==
    EmptiedIdentifier
    => /\ pc = "returned"
       /\ ~result.success
       /\ result.error_message = Message("Invalid video ID")
       /\ result.video_info = video_info
       /\ cacheLookups = 0
       /\ attempts = <<>>
       /\ NoLaterStage
       /\ FileAt(fs, req.output_path) = destBefore

C11_Witness ==
    /\ pc = "returned"
    /\ video_info.found
    /\ video_info.id = <<".">>

\* file discovery ran and gave no file
DiscoveryFoundNothing ==
    pc = "returned" /\ discoveryRuns > 0 /\ original_file_path = NoPath

\* files of the temp directory named after the identifier whose name ends
\* in one of the given suffixes
MarkedFiles(suffixes) ==
    {p \in DOMAIN fs : /\ p.dir = "tmp"
                       /\ HasPrefix(p.name, video_info.id)
                       /\ Len(p.name) > Len(video_info.id)
                       /\ p.name[Len(p.name)] \in suffixes}

IncompleteMessage == Message("Download incomplete - only .part file found")

NotFoundMessage == Message("Download completed but file not found after waiting")

\* C12 as stated: after a download that did not fail, when file discovery
\* finds nothing, the outcome is the incomplete-download failure if a file
\* with a partial marker (.part or .ytdl) is there for the identifier and the
\* file-not-found failure otherwise, and the destination is not written.
C12_PartialMarkerDecidesFailure ==
    DiscoveryFoundNothing
    => /\ ~result.success
       /\ result.error_message =
             IF MarkedFiles(INCOMPLETE_FILE_EXTENSIONS) # {}
             THEN IncompleteMessage ELSE NotFoundMessage
       /\ FileAt(fs, req.output_path) = destBefore

\* C12 amended: only a file whose name ends in .part makes the outcome the
\* incomplete-download failure; no copy, trim or stitch runs, and a
\* destination outside the temp directory is left as it was.
C12_PartFileDecidesFailure ==
    DiscoveryFoundNothing
    => /\ ~result.success
       /\ LastAttempt.err = "ok"
       /\ result.error_message =
             IF MarkedFiles({".part"}) # {}
             THEN IncompleteMessage ELSE NotFoundMessage
       /\ processed = <<>> /\ toolCalls = <<>>
       /\ req.output_path.dir # "tmp" => FileAt(fs, req.output_path) = destBefore

C12_Witness ==
    /\ DiscoveryFoundNothing
    /\ result.error_message = IncompleteMessage
    /\ Len(sleeps) = MAX_FILE_FIND_RETRIES - 1

\* the step the request asks for
RequestedStep ==
    IF req.sections # <<>> THEN "stitch"
    ELSE IF req.start_time # NoTime \/ req.end_time # NoTime THEN "trim"
    ELSE "copy"

\* C13: a run that reaches the processing step executes exactly one of
\* copy, trim and stitch: stitch when a non-empty list of ranges is given
\* (a single start/end given with it is ignored), trim when there is no list
\* and a start or an end is given, copy otherwise.
C13_ExactlyOneProcessingStep ==
    procInput # NoPath
    => /\ processed = <<RequestedStep>>
       /\ RequestedStep = "copy" => toolCalls = <<>>
       /\ RequestedStep = "trim"
             => /\ ConcatCalls = <<>>
                /\ \A k \in DOMAIN toolCalls :
                      /\ toolCalls[k].ss = req.start_time
                      /\ toolCalls[k].output = req.output_path
       /\ RequestedStep = "stitch"
             => \A k \in DOMAIN TrimCalls :
                   /\ TrimCalls[k].ss = req.sections[k][1]
                   /\ TrimCalls[k].t = req.sections[k][2] - req.sections[k][1]
                   /\ TrimCalls[k].output # req.output_path

C13_Witness ==
    /\ pc = "returned" /\ result.success
    /\ req.sections # <<>> /\ req.end_time # NoTime
    /\ processed = <<"stitch">>
    /\ Len(TrimCalls) = 1

\* the duration an end time asks for
RequestedDuration(c) ==
    IF c.start_time # NoTime THEN c.end_time - c.start_time ELSE c.end_time

\* C14: cut_video with an end time that makes the duration zero or negative
\* returns failure and does not invoke the external tool.
C14_NonPositiveDurationFails ==
    (cutPc = "returned" /\ cutIn.end_time # NoTime /\ RequestedDuration(cutIn) <= 0)
    => (cutOut = FALSE /\ toolCalls = <<>>)

C14_Witness ==
    /\ cutPc = "returned"
    /\ cutIn.input_path = CacheAB /\ cutIn.output_path = OutFile
    /\ ffmpegOk
    /\ cutIn.start_time = 30 /\ cutIn.end_time = 10
    /\ cutOut = FALSE

\* C15: when cut_video invokes the tool, the seek flag is there iff a start
\* is given and carries it, the duration flag is there iff an end is given
\* and carries end - start (end alone without a start); with neither, the
\* invocation carries neither flag.
C15_FlagsFollowArguments ==
    (cutPc = "returned" /\ toolCalls # <<>>)
    => LET c == toolCalls[1]
       IN  /\ (c.ss # NoTime) <=> (cutIn.start_time # NoTime)
           /\ cutIn.start_time # NoTime => c.ss = cutIn.start_time
           /\ (c.t # NoTime) <=> (cutIn.end_time # NoTime)
           /\ cutIn.end_time # NoTime => c.t = RequestedDuration(cutIn)
           /\ c.input = <<cutIn.input_path>>
           /\ c.output = cutIn.output_path

C15_Witness ==
    /\ cutPc = "returned"
    /\ cutIn.start_time = 10 /\ cutIn.end_time = 30
    /\ Len(toolCalls) = 1
    /\ toolCalls[1].ss = 10 /\ toolCalls[1].t = 20

\* C16: a cut_video call invokes the tool at most once; a timeout, a
\* non-zero exit or a missing binary gives failure with no second
\* invocation, and success is returned only if the one invocation ended
\* with exit status zero.
C16_SingleInvocation ==
    cutPc = "returned"
    => /\ Len(toolCalls) <= 1
       /\ cutOut => (Len(toolCalls) = 1 /\ toolCalls[1].exit = "ok")
       /\ \A k \in DOMAIN toolCalls :
             toolCalls[k].exit \in {"timeout", "nonzero", "missing"} => ~cutOut

C16_Witness ==
    /\ cutPc = "returned"
    /\ Len(toolCalls) = 1
    /\ toolCalls[1].exit = "timeout"
    /\ cutOut = FALSE

\* the first max_checks samples were read, are equal and are not zero
AllSamplesEqualPositive ==
    /\ stabIn.max_checks >= 1
    /\ \A k \in 1..stabIn.max_checks :
          /\ stabIn.samples[k] # StatError
          /\ stabIn.samples[k] = stabIn.samples[1]
    /\ stabIn.samples[1] > 0

C18_CopyOfCachedAsset ==
    (/\ pc = "returned" /\ result.success
     /\ cached_video_path # NoPath
     /\ RequestedStep = "copy")
    => /\ IsFile(fs, req.output_path)
       /\ fs[req.output_path].data = origBefore.data
       /\ fs[req.output_path].size = origBefore.size
       /\ procInput = cached_video_path
       /\ IsFile(fs, cached_video_path)
       /\ FileAt(fs, cached_video_path) = origBefore

C18_Witness ==
    /\ pc = "returned" /\ result.success
    /\ cached_video_path = CacheAB
    /\ processed = <<"copy">>
    /\ destBefore.data = "old"

\* C19: extract_video_info calls the probe once; when the probe raises or
\* gives no data it returns None without raising, and download_video
\* returns the "Failed to extract video information" failure with no cache
\* lookup and no download attempt.
C19_ProbeFailureFails ==
    /\ Len(probeCalls) <= 1
    /\ pc \notin {"idle", "probe"} /\ video_info # NoInfo => Len(probeCalls) = 1
    /\ (probeCalls # <<>> /\ probeCalls[1] # "info")
          => /\ pc = "returned"
             /\ ~result.success
             /\ result.error_message = Message("Failed to extract video information")
             /\ cacheLookups = 0
             /\ attempts = <<>>
             /\ NoLaterStage

C19_Witness ==
    /\ pc = "returned"
    /\ probeCalls = <<"Exception">>

YouTubeHosts == {<<"youtube", ".com">>, <<"www.", "youtube", ".com">>,
                 <<"youtu", ".be">>}

\* C20: validate_url returns True only for a non-empty string with scheme
\* http:// or https:// whose domain is youtube.com or youtu.be and for which
\* the probe returns metadata; a similar domain is rejected whatever the
\* probe returns.
C20_TrueOnlyForYouTubeDomain ==
    (urlPc = "returned" /\ urlOut)
    => /\ urlIn.isStr
       /\ urlIn.scheme \in {<<"http://">>, <<"https://">>}
       /\ urlIn.host \in YouTubeHosts
       /\ urlIn.probe.kind = "info"

----------------------------------------------------------------------------
\* Claims C21 to C30

\* an identifier the sanitizer has nothing to do on: no removed character,
\* no dot or space at either end, and not empty
CleanIdentifier(x) ==
    /\ x # <<>>
    /\ \A i \in DOMAIN x : x[i] \notin RemovedChars
    /\ x[1] \notin StripChars
    /\ x[Len(x)] \notin StripChars

\* C21: _sanitize_video_id is idempotent: whenever it returns normally,
\* sanitizing its result again returns the same string, and a clean
\* identifier (no removed character, no dot or space at either end) is
\* returned unchanged.
C21_SanitizerIdempotent ==
    /\ sanPc = "again" => sanAgain = sanOut
    /\ (sanPc \in {"returned", "again"} /\ CleanIdentifier(sanIn))
            => sanOut = sanIn

\* the second application has been made on a result that differs from
\* the input
C21_Witness ==
    /\ sanPc = "again"
    /\ sanOut # sanIn
    /\ sanAgain = sanOut

\* cut_and_concatenate_sections, called on its own, has returned
StitchReturned == stitchCaller = "direct" /\ pc = "stitch_returned"

\* C23: cut_and_concatenate_sections called with an empty list of ranges
\* returns failure, whatever the external tool does.
C23_EmptyListFails ==
    (StitchReturned /\ req.sections = <<>>) => stitchRet = "false"

\* the configured tool path is one of those the validation is to refuse:
\* empty, holding a shell metacharacter, a bare name the executable search
\* does not resolve, or an absolute path that does not exist
RefusedToolPath(path) ==
    \/ path = <<>>
    \/ \E i \in DOMAIN path : path[i] \in ShellMetaChars
    \/ path[1] # "/" /\ path \notin ToolsOnPath
    \/ path[1] = "/" /\ path \notin ExistingTools

\* section files and manifests present in the temp directory
StitchTemporaries(f) ==
    {p \in DOMAIN f :
        p.dir = "tmp" /\ \E i \in DOMAIN p.name : p.name[i] \in {"_section_", "_concat"}}

\* C30: when the configured tool path fails validation, neither cut_video
\* nor cut_and_concatenate_sections invokes the external tool; both return
\* failure and no temporary file is created.
C30_RefusedPathNeverRuns ==
    RefusedToolPath(ffmpeg_path)
    => /\ toolCalls = <<>>
       /\ tempsWritten = {}
       /\ StitchTemporaries(fs) = {}
       /\ cutPc = "returned" => cutOut = FALSE
       /\ stitchCaller = "direct"
             => pc = "stitch_returned" /\ stitchRet = "false"

\* the stitch was called with ranges and an absolute tool path that does
\* not exist, and has returned
C30_Witness ==
    /\ StitchReturned
    /\ req.sections # <<>>
    /\ ffmpeg_path = <<"/", "gone", "/", "ffmpeg">>
    /\ stitchRet = "false"

\* cut_video was called with a bare name nothing resolves, and has returned
C30_WitnessCut ==
    /\ cutPc = "returned"
    /\ ffmpeg_path = <<"nosuch">>
    /\ IsFile(fs, cutIn.input_path)
    /\ ~InvalidDuration(cutIn.start_time, cutIn.end_time)

ProcessingSteps == {"copy", "trim", "stitch"}

\* stage b may come right after stage a
StageFollows(a, b) ==
    \/ a = "probe" /\ b = "sanitize"
    \/ a = "sanitize" /\ b = "cache"
    \/ a = "cache" /\ b = "download" /\ cached_video_path = NoPath
    \/ a = "cache" /\ b \in ProcessingSteps /\ cached_video_path # NoPath
    \/ a = "download" /\ b = "download"
    \/ a = "download" /\ b = "discover" /\ LastAttempt.err = "ok"
    \/ a = "discover" /\ b \in ProcessingSteps
    \/ a \in ProcessingSteps /\ b = "verify"

\* the stage that decided the outcome download_video returned
LastStage == stages[Len(stages)]

\* C24: in every download_video run the stages come in the order probe,
\* sanitization, cache lookup, then (only on a cache miss) download attempts
\* followed by discovery, then exactly one of copy/trim/stitch, then final
\* verification; none is skipped, and the stage that decides a failure is
\* the last one to run.
C24_StageOrder ==
    /\ stages # <<>> => stages[1] = "probe"
    /\ \A i \in 1..(Len(stages) - 1) : StageFollows(stages[i], stages[i + 1])
    /\ Len(SelectSeq(stages, LAMBDA st : st \in ProcessingSteps)) <= 1
    /\ (pc = "returned" /\ result.success)
          => /\ LastStage = "verify"
             /\ Len(SelectSeq(stages, LAMBDA st : st \in ProcessingSteps)) = 1
    /\ (pc = "returned" /\ ~result.success /\ stages # <<>>)
          => /\ result.error_message = Message("Failed to extract video information")
                  => LastStage = "probe"
             /\ result.error_message = Message("Invalid video ID")
                  => LastStage = "sanitize"
             /\ result.error_message = Message("Cached video file not found or invalid")
                  => LastStage = "cache"
             /\ result.error_message.msg = "All format selectors failed. Last error"
                  => LastStage = "download"
             /\ result.error_message \in {IncompleteMessage, NotFoundMessage}
                  => LastStage = "discover"
             /\ result.error_message \in
                    {Message("Failed to copy file to requested location"),
                     Message("Failed to cut video"),
                     Message("Failed to cut and concatenate video sections")}
                  => LastStage \in ProcessingSteps
             /\ result.error_message \in
                    {Message("Final output file does not exist"),
                     Message("Final output file is empty")}
                  => LastStage = "verify"

\* a run that missed the cache, downloaded at the first attempt, found the
\* file, trimmed it and verified the output
C24_Witness ==
    /\ pc = "returned" /\ result.success
    /\ stages = <<"probe", "sanitize", "cache", "download", "discover",
                  "trim", "verify">>

\* the cache lookup has been made and the temp directory is as it found it
LookedUp == cacheLookups = 1

\* the identifiers the lookup tries for the probed video, as a set
LookupIds ==
    {SearchIds(video_info.id)[k] : k \in DOMAIN SearchIds(video_info.id)}

\* every file the lookup can take for the video: <identifier>.<anything>
LookupCandidates == UNION {GlobDot(fs, sid) : sid \in LookupIds}

\* C25: every path _get_cached_video_path returns named, when it was
\* checked, a regular file that exists, is not empty, does not end in a
\* partial marker, does not hold the cut-file marker and passed the
\* stability check; when all candidates are invalid it returns None.
C25_CachedPathIsValidStable ==
    LookedUp =>
      /\ cached_video_path # NoPath =>
            /\ cached_video_path \in DOMAIN fs
            /\ fs[cached_video_path].kind = "file"
            /\ fs[cached_video_path].size > 0
            /\ cached_video_path.name[Len(cached_video_path.name)]
                   \notin INCOMPLETE_FILE_EXTENSIONS
            /\ \A i \in DOMAIN cached_video_path.name :
                   cached_video_path.name[i] # CUT_FILE_MARKER
            /\ Len(cacheSamples) = FILE_STABILITY_CHECK_RETRIES
            /\ \A i \in DOMAIN cacheSamples :
                   cacheSamples[i] = cacheSamples[1] /\ cacheSamples[i] > 0
      /\ (\A p \in LookupCandidates :
              \/ fs[p].size = 0
              \/ p.name[Len(p.name)] \in INCOMPLETE_FILE_EXTENSIONS
              \/ \E i \in DOMAIN p.name : p.name[i] = CUT_FILE_MARKER)
            => cached_video_path = NoPath

\* a path was returned although an empty file and a partial file of the
\* same video were there too
C25_Witness ==
    /\ LookedUp
    /\ cached_video_path = TmpPath(<<"a", "b", ".webm">>)
    /\ FileAt(fs, TmpPath(<<"a", "b", ".mp4">>)).size = 0
    /\ Exists(fs, TmpPath(<<"a", "b", ".mp4">>))
    /\ Exists(fs, TmpPath(<<"a", "b", ".mp4", ".part">>))

\* only empty and marked files were there and None was returned
C25_WitnessNone ==
    /\ LookedUp
    /\ LookupCandidates # {}
    /\ cached_video_path = NoPath
    /\ \A p \in LookupCandidates : ~IsValidVideoFile(fs, p)

\* the identifier whose file the lookup returned
ReturnedFor == CHOOSE sid \in LookupIds : cached_video_path \in GlobDot(fs, sid)

\* <identifier>.<known extension>, by position in VIDEO_EXTENSIONS
KnownName(sid, i) == TmpPath(sid \o <<VIDEO_EXTENSIONS[i]>>)

\* a valid file nobody is writing: whenever it is checked it is stable
SureCandidate(p) == IsValidVideoFile(fs, p) /\ p \notin growing

ExactMatches(sid) ==
    {p \in {KnownName(sid, i) : i \in DOMAIN VIDEO_EXTENSIONS} : SureCandidate(p)}

PrefixMatches(sid) == {p \in GlobDot(fs, sid) : SureCandidate(p)}

ValidMatches(sid) == {p \in GlobDot(fs, sid) : IsValidVideoFile(fs, p)}

\* the valid files named <identifier>.* that no other one exceeds in size
LargestMatches(sid) ==
    {p \in ValidMatches(sid) :
        \A q \in ValidMatches(sid) : fs[q].size <= fs[p].size}

\* C26 as stated: among several valid, stable candidates the lookup returns
\* the largest extension-exact match and, when there are only prefix
\* matches, the most recently modified one.
C26_LargestExactElseNewest ==
    (LookedUp /\ growing = {} /\ cached_video_path # NoPath)
    => IF ExactMatches(ReturnedFor) # {}
       THEN \A q \in ExactMatches(ReturnedFor) :
               fs[q].size <= fs[cached_video_path].size
       ELSE \A q \in PrefixMatches(ReturnedFor) :
               fs[q].mtime <= fs[cached_video_path].mtime

\* C26, amended: the lookup returns the extension-exact match whose
\* extension comes first in VIDEO_EXTENSIONS among those that are valid and
\* stable, whatever the sizes; when no extension-exact match is valid and
\* stable, it returns the largest valid file named <identifier>.*;
\* modification times play no part.
C26_FirstExactElseLargest ==
    (LookedUp /\ cached_video_path # NoPath)
    => \/ \E i \in DOMAIN VIDEO_EXTENSIONS :
             /\ cached_video_path = KnownName(ReturnedFor, i)
             /\ \A j \in 1..(i - 1) :
                    KnownName(ReturnedFor, j) \notin ExactMatches(ReturnedFor)
       \/ /\ ExactMatches(ReturnedFor) = {}
          /\ cached_video_path \in LargestMatches(ReturnedFor)

\* the .mp4 file was returned although the .webm file is larger, and both
\* are valid and at rest
C26_Witness ==
    /\ LookedUp /\ growing = {}
    /\ cached_video_path = TmpPath(<<"a", "b", ".mp4">>)
    /\ TmpPath(<<"a", "b", ".webm">>) \in ExactMatches(<<"a", "b">>)
    /\ fs[TmpPath(<<"a", "b", ".webm">>)].size > fs[cached_video_path].size

\* for this identifier the lookup is sure to return a file
Decisive(sid) ==
    \/ ExactMatches(sid) # {}
    \/ LargestMatches(sid) # {} /\ LargestMatches(sid) \cap growing = {}

\* the identifiers tried before the one whose file was returned
TriedBefore ==
    {SearchIds(video_info.id)[k] :
        k \in {n \in DOMAIN SearchIds(video_info.id) :
                  \A m \in 1..n : SearchIds(video_info.id)[m] # ReturnedFor}}

\* C27 as stated: the lookup returns None only if no file matching the raw
\* or the sanitized identifier is both valid and stable, and a candidate of
\* the raw identifier goes before those of the sanitized one.
C27_NoneOnlyWithoutCandidate ==
    LookedUp =>
      /\ cached_video_path = NoPath
            => \A sid \in LookupIds : PrefixMatches(sid) = {}
      /\ cached_video_path # NoPath
            => \A sid \in TriedBefore : PrefixMatches(sid) = {}

\* C27, amended: the lookup returns None only if, for the raw and for the
\* sanitized identifier, no extension-exact file is valid and stable and the
\* largest valid file named <identifier>.* is missing or still written; a
\* file of the sanitized identifier is returned only if the same holds of
\* the raw identifier.
C27_NoneOnlyWithoutDecisive ==
    LookedUp =>
      /\ cached_video_path = NoPath
            => \A sid \in LookupIds : ~Decisive(sid)
      /\ cached_video_path # NoPath
            => \A sid \in TriedBefore : ~Decisive(sid)

\* None was returned because the match taken as the largest is still
\* written, although another valid file of the video is at rest
C27_Witness ==
    /\ LookedUp
    /\ cached_video_path = NoPath
    /\ growing = {TmpPath(<<"a", "b", ".bak">>)}
    /\ TmpPath(<<"a", "b", ".bak">>) \in LargestMatches(<<"a", "b">>)
    /\ TmpPath(<<"a", "b", ".ts">>) \in PrefixMatches(<<"a", "b">>)

\* _find_downloaded_file has returned a path
Found == discoveryRuns = 1 /\ pc = "validate"

\* a partial-marker file, a cut-marker file or a zero-byte file
Unusable(p) ==
    \/ p \notin DOMAIN fs
    \/ fs[p].kind # "file"
    \/ fs[p].size = 0
    \/ p.name[Len(p.name)] \in INCOMPLETE_FILE_EXTENSIONS
    \/ \E i \in DOMAIN p.name : p.name[i] = CUT_FILE_MARKER

\* the usable files whose name starts with the identifier, and the most
\* recently modified among them
UsableFor(sid) == {p \in GlobPrefix(fs, sid) : ~Unusable(p)}

NewestFor(sid) ==
    {p \in UsableFor(sid) : \A q \in UsableFor(sid) : fs[q].mtime <= fs[p].mtime}

\* a search for this identifier is sure to return a file
SureFor(sid) == NewestFor(sid) # {} /\ NewestFor(sid) \cap growing = {}

\* the three sizes the stability check of the returned file saw are equal
\* and positive
FoundStable ==
    /\ Len(foundSamples) = FILE_STABILITY_CHECK_RETRIES
    /\ \A i \in DOMAIN foundSamples :
           foundSamples[i] = foundSamples[1] /\ foundSamples[i] > 0

\* the captured completion path is there, usable, and nobody writes it
CapturedUsable ==
    final_path # NoPath /\ ~Unusable(final_path) /\ final_path \notin growing

\* the step is the check of the captured path / one attempt of the search
DiscoverStep == discoveryRuns' = discoveryRuns + 1

SearchStep == searchCount' = searchCount + 1

\* what holds of every path _find_downloaded_file has returned
C28_Returned ==
    Found =>
      /\ ~Unusable(original_file_path)
      /\ FoundStable
      /\ searchCount = 0 => original_file_path = final_path
      /\ searchCount > 0 =>
            \E sid \in LookupIds : original_file_path \in NewestFor(sid)

\* what holds of every step of _find_downloaded_file
C28_Steps ==
    /\ (DiscoverStep /\ CapturedUsable)
          => (original_file_path' = final_path /\ pc' = "validate"
                /\ searchCount' = 0)
    /\ (SearchStep /\ \E sid \in LookupIds : SureFor(sid))
          => pc' = "validate"
    /\ (SearchStep /\ SureFor(video_info.id))
          => original_file_path' \in NewestFor(video_info.id)

\* C28: _find_downloaded_file returns the captured completion path whenever
\* it exists, is valid and is stable, without searching the directory;
\* otherwise it searches by raw then sanitized identifier and, in each
\* attempt, returns the most recently modified valid candidate if it is
\* stable; it never returns a partial-marker, cut-marker or zero-byte file.
C28_CapturedThenNewest == [](C28_Returned) /\ [][C28_Steps]_vars

\* the search returned the newer of two usable files, the captured path
\* being of no use
C28_Witness ==
    /\ Found
    /\ searchCount > 0
    /\ final_path = CwdFile /\ Unusable(CwdFile)
    /\ original_file_path = TmpPath(<<"a", "b", ".webm">>)
    /\ ~Unusable(TmpPath(<<"a", "b", ".mp4">>))
    /\ Exists(fs, TmpPath(<<"a", "b", ".mp4", ".part">>))

\* the captured path was returned at once
C28_WitnessCaptured ==
    /\ Found
    /\ searchCount = 0
    /\ original_file_path = CwdFile

\* the delays of the claim, in milliseconds
ExpectedDelays == <<1000, 1500, 2250, 3000, 3000, 3000, 3000, 3000, 3000>>

\* the search of _find_downloaded_file is over
SearchOver == searchCount > 0 /\ pc # "search"

\* C29: the directory search makes at most 10 attempts and sleeps only
\* between attempts, never after the last; the delays are 1.0, 1.5, 2.25,
\* 3.0, 3.0, ... seconds, non-decreasing and never above the ceiling; when
\* no attempt finds a stable valid file the function returns None.
C29_BoundedBackoff ==
    /\ searchCount <= 10
    /\ Len(sleeps) <= 9
    /\ \A i \in DOMAIN sleeps : sleeps[i] = ExpectedDelays[i]
    /\ \A i \in 1..(Len(sleeps) - 1) : sleeps[i] <= sleeps[i + 1]
    /\ \A i \in DOMAIN sleeps : sleeps[i] <= 3000
    /\ pc = "search" => Len(sleeps) = searchCount
    /\ SearchOver => Len(sleeps) = searchCount - 1
    /\ (SearchOver /\ ~Found)
          => /\ searchCount = 10
             /\ original_file_path = NoPath
             /\ pc = "returned" /\ ~result.success

\* ten attempts found nothing
C29_Witness ==
    /\ SearchOver /\ ~Found
    /\ searchCount = 10
    /\ sleeps = ExpectedDelays

\* main's own probe has returned the metadata of a scheduled video
ProbedScheduled ==
    /\ mainProbe.kind = "info"
    /\ mainProbe.live_status = "is_upcoming"

\* C22: in the download mode of main, once the probe has returned a video
\* whose live_status is 'is_upcoming', download_video is never called, and
\* main ends by writing success, scheduled = True and the metadata to stdout
\* and exiting with status 0.
C22_ScheduledIsReportedNotDownloaded ==
    ProbedScheduled =>
        /\ \A i \in DOMAIN mainCalls : mainCalls[i] # "download_video"
        /\ mainPc \in {"decide", "exited"}
        /\ mainInfo.is_scheduled
        /\ mainPc = "exited" =>
            /\ mainOut.exit = Exit(0)
            /\ mainOut.json.success
            /\ "scheduled" \in DOMAIN mainOut.json
            /\ mainOut.json.scheduled
            /\ mainOut.json.video_info = MainVideoInfo(mainProbe)

C22_Witness ==
    /\ ProbedScheduled
    /\ mainPc = "exited"
    /\ mainOut.exit = Exit(0)
    /\ mainOut.json.scheduled
    /\ mainCalls = <<"validate_url", "extract_video_info">>


----------------------------------------------------------------------------
\* Claims C31 to C40

\* the temporaries of a stitch of n ranges, in range order
ExpectedSectionFiles(n) ==
    [i \in 1..n |-> SectionOutput(video_info.id, i - 1)]

\* the i-th invocation in trim mode is the trim of the i-th range
TrimOfRange(i) ==
    /\ i <= Len(req.sections)
    /\ TrimCalls[i].input = <<original_file_path>>
    /\ TrimCalls[i].output = SectionOutput(video_info.id, i - 1)
    /\ TrimCalls[i].ss = req.sections[i][1]
    /\ TrimCalls[i].t = Duration(req.sections[i][1], req.sections[i][2])

C31_Calls ==
    stitchCaller = "direct" =>
        /\ \A i \in DOMAIN TrimCalls : TrimOfRange(i)
        /\ \A i \in 1..(Len(TrimCalls) - 1) : TrimCalls[i].exit = "ok"
        /\ Len(ConcatCalls) <= 1
        /\ ConcatCalls # <<>> =>
            /\ toolCalls[Len(toolCalls)].mode = "concat"
            /\ Len(TrimCalls) = Len(req.sections)
            /\ \A i \in DOMAIN TrimCalls : TrimCalls[i].exit = "ok"
            /\ ConcatCalls[1].input = ExpectedSectionFiles(Len(req.sections))
        /\ stitchRet = "true" =>
            /\ ConcatCalls # <<>>
            /\ ConcatCalls[1].exit = "ok"
            /\ Exists(fs, req.output_path)

\* the step that invokes the concat mode finds every temporary valid
C31_ConcatStep ==
    (pc = "stitch_concat" /\ toolCalls' # toolCalls) =>
        /\ section_files = ExpectedSectionFiles(Len(req.sections))
        /\ \A i \in DOMAIN section_files : IsValidVideoFile(fs, section_files[i])

\* C31: in cut_and_concatenate_sections the ranges are trimmed one at a time
\* in list order; the concat mode is invoked at most once, after every range
\* has been trimmed into a valid temporary, on a manifest that lists one
\* entry per range in range order; the call returns True only if concat
\* exited with status zero and the output path exists.
C31_TrimsThenOneConcat == [](C31_Calls) /\ [][C31_ConcatStep]_vars

C31_Witness ==
    /\ StitchReturned
    /\ stitchRet = "true"
    /\ Len(req.sections) = 2
    /\ Len(TrimCalls) = 2
    /\ Len(ConcatCalls) = 1


\* an attempt made with these options records a live video from the moment
\* the attempt starts; a video that is not live, or live_from_start, is
\* taken from its beginning
StartsAtLiveEdge(opts) == video_info.is_live /\ ~opts.live_from_start

BoundsRecording(opts) ==
    /\ "live_recording_duration" \in DOMAIN opts
    /\ opts.live_recording_duration = 3600

\* C32: every download attempt of a live video whose request does not ask
\* to join from the start bounds the recording to one hour and starts at the
\* live edge; every other attempt takes the video from the beginning and
\* sets no recording bound.
C32_LiveOptions ==
    \A i \in DOMAIN attempts :
        IF video_info.is_live /\ ~req.download_from_start
        THEN /\ BoundsRecording(attempts[i].opts)
             /\ StartsAtLiveEdge(attempts[i].opts)
        ELSE /\ "live_recording_duration" \notin DOMAIN attempts[i].opts
             /\ ~StartsAtLiveEdge(attempts[i].opts)

C32_Witness ==
    /\ Len(attempts) = 2
    /\ video_info.is_live
    /\ ~req.download_from_start
    /\ BoundsRecording(attempts[2].opts)

C32_WitnessFromStart ==
    /\ attempts # <<>>
    /\ video_info.is_live
    /\ req.download_from_start
    /\ attempts[1].opts.live_from_start


\* the callback carried a file name, in 'filename' or in info_dict
CarriedName(d) == d.filename # NoPath \/ d.info_filename # NoPath

FinishedWithName(calls) ==
    {i \in DOMAIN calls : calls[i].status = "finished" /\ CarriedName(calls[i])}

\* the file name of the most recent completion that carried one
LastFinishedName(calls) ==
    IF FinishedWithName(calls) = {} THEN NoPath
    ELSE LET last == CHOOSE i \in FinishedWithName(calls) :
                        \A j \in FinishedWithName(calls) : j <= i
         IN  IF calls[last].filename # NoPath THEN calls[last].filename
             ELSE calls[last].info_filename

Downloading(calls) == SelectSeq(calls, LAMBDA d : d.status = "downloading")

\* C33: after any sequence of callbacks the tracker's final file path is
\* the file name of the most recent 'finished' callback that carried one
\* (None when there was none), and exactly one progress event has been
\* emitted for each 'downloading' callback, in order, and none for any other.
C33_TrackerFollowsCallbacks ==
    /\ final_path = LastFinishedName(hookCalls)
    /\ Len(progressOut) = Len(Downloading(hookCalls))
    /\ \A i \in DOMAIN progressOut :
        /\ progressOut[i].type = "progress"
        /\ progressOut[i].downloaded_bytes = Downloading(hookCalls)[i].downloaded_bytes
        /\ progressOut[i].total_bytes = Downloading(hookCalls)[i].total_bytes

C33_Witness ==
    /\ Len(hookCalls) = 3
    /\ hookCalls[1].status = "finished" /\ hookCalls[1].filename = CacheAB
    /\ hookCalls[2].status = "downloading"
    /\ hookCalls[3].status = "finished" /\ hookCalls[3].filename = NoPath
    /\ hookCalls[3].info_filename = CwdFile
    /\ final_path = CwdFile
    /\ Len(progressOut) = 1


\* C34: every DownloadResult download_video returns is well-formed.  With
\* success True the error message is None, the file path is the requested
\* destination and the file size is greater than zero; with success False
\* the file path, the file size and the cached-asset path are None and the
\* error message is not empty.
C34_WellFormedResult ==
    pc = "returned" =>
        IF result.success
        THEN /\ result.error_message = NoMessage
             /\ result.file_path = req.output_path
             /\ result.file_size > 0
        ELSE /\ result.file_path = NoPath
             /\ result.file_size = -1
             /\ result.cached_file_path = NoPath
             /\ result.error_message # NoMessage
             /\ result.error_message.msg # ""

C34_Witness ==
    /\ pc = "returned"
    /\ result.success
    /\ processed = <<"stitch">>
    /\ result.cached_file_path # NoPath
    /\ result.file_size > 0

C34_WitnessFailure ==
    /\ pc = "returned"
    /\ ~result.success
    /\ processed = <<"copy">>
    /\ result.error_message.msg # ""


\* p is named after one of the identifiers the video is searched by,
\* followed by one extension
OwnAsset(p) ==
    \E sid \in LookupIds :
        /\ Len(p.name) = Len(sid) + 1
        /\ SubSeq(p.name, 1, Len(sid)) = sid
        /\ p.name[Len(p.name)] \in DotTokens

\* the file search of this call has returned a file
SearchReturned == discoveryRuns > 0 /\ original_file_path # NoPath

\* C35: the file the cache lookup or the file search returns for a video
\* is named after that video's identifier followed by an extension, never
\* after a longer identifier that begins with it.
C35_ReturnsOwnAsset ==
    /\ cached_video_path # NoPath => OwnAsset(cached_video_path)
    /\ SearchReturned => OwnAsset(original_file_path)

\* C36: neither the cache lookup nor the file search returns a per-range
\* temporary or a manifest of a stitch as the file of the video.
C36_NeverReturnsTemporary ==
    /\ cached_video_path \notin StitchTemporaries(fs)
    /\ SearchReturned => original_file_path \notin StitchTemporaries(fs)


\* C37: two concurrent cut_and_concatenate_sections calls never overwrite
\* or delete each other's temporaries: when a call's concat step runs, the
\* manifest and every file it lists exist with the content that call wrote.
C37_TemporariesIntact ==
    \A i \in DOMAIN twin : twin[i].read # "damaged"


\* the resolved path lies below the temp directory
InsideTemp(parts) ==
    /\ Len(parts) > Len(TempParts)
    /\ SubSeq(parts, 1, Len(TempParts)) = TempParts

\* C38: for every identifier that passes sanitization, every path built
\* from it (output template, cache copy, section files, manifest) lies
\* inside the temp directory.
C38_PathsInsideTemp == \A parts \in built : InsideTemp(parts)


\* the file handed to the copy, trim or stitch step as its input
ProcessingStarted == processed # <<>> /\ procInput # NoPath

\* C39: the file used as the input of the copy, trim or stitch step has
\* passed the validity check and the stability check in this invocation,
\* whichever way the processing step was reached.
C39_InputWasChecked ==
    ProcessingStarted => BothPassed(procInput) \subseteq passed

\* the part of C39 about the stability check alone
C39_InputWasStable ==
    ProcessingStarted => <<"stable", procInput>> \in passed


\* download_video has returned or raised
Terminated == pc \in {"returned", "raised", "stitch_returned"}

\* an upper bound of the steps download_video still has to make
Remaining ==
    LET n == Len(req.sections)
        retries == MAX_FILE_FIND_RETRIES
    IN  CASE pc = "verify" -> 1
          [] pc = "stitch_concat" -> 2
          [] pc = "stitch_cut" -> 2 + (n - sIndex)
          [] pc = "process" -> 3 + n
          [] pc = "validate" -> 4 + n
          [] pc = "search" -> 4 + n + (retries - findAttempt)
          [] pc = "discover" -> 5 + n + retries
          [] pc = "download" ->
                5 + n + retries + (Len(FormatSelectors(req.quality)) + 1 - fmtIdx)
          [] pc = "cache" -> 6 + n + retries + Len(FormatSelectors(req.quality))
          [] pc = "probe" -> 7 + n + retries + Len(FormatSelectors(req.quality))
          [] OTHER -> 0

\* the steps left to download_video and to the writers of other processes
Measure == 2 * Remaining + Cardinality(growing)

\* a step of download_video itself
ProgramStep ==
    \/ Probe \/ CacheLookup \/ DownloadAttempt \/ Discover \/ SearchAttempt
    \/ ValidateOriginal \/ ProcessCopy \/ ProcessTrim \/ StitchEnter
    \/ StitchCut \/ StitchConcat \/ Verify

C40_Bounds ==
    /\ Len(attempts) <= 4
    /\ searchCount <= 10
    /\ Len(cacheSamples) <= FILE_STABILITY_CHECK_RETRIES
    /\ Len(foundSamples) <= FILE_STABILITY_CHECK_RETRIES
    /\ Len(TrimCalls) <= (IF UseSections(req) THEN Len(req.sections) ELSE 1)
    /\ Len(ConcatCalls) <= 1
    /\ Terminated => (result # NoResult \/ pc = "raised")

\* until download_video has ended, a step of it can be taken
NeverStuck == (pc # "idle" /\ ~Terminated) => ENABLED ProgramStep

C40_Progress == pc # "idle" => Measure' < Measure

\* C40: a download_video call whose external calls all return ends with an
\* outcome or an error: every step lowers a natural-numbered measure, a call
\* that has ended has a result or has raised, and on the way it makes at most
\* 4 download attempts, at most 10 rounds of the directory search, at most
\* FILE_STABILITY_CHECK_RETRIES size samples per stability check, at most
\* one trim per requested range and at most one concat invocation.
C40_TerminatesWithinBounds == [](C40_Bounds) /\ [][C40_Progress]_vars

C40_Witness ==
    /\ pc = "returned"
    /\ searchCount = 10
    /\ Len(foundSamples) <= FILE_STABILITY_CHECK_RETRIES

C40_WitnessAttempts ==
    /\ pc = "returned"
    /\ Len(attempts) = 4

C40_WitnessStitch ==
    /\ pc = "returned"
    /\ Len(TrimCalls) = 2
    /\ Len(ConcatCalls) = 1
    /\ result.success



====
